---- MODULE Spec2Model ----
(***************************************************************************)
(* A model of go-kv-store: the KVStore (value and expiration mappings      *)
(* behind one RWMutex), the command handlers of the server that call it,   *)
(* one handler task per client connection, the periodic sweep task and a   *)
(* clock.                                                                  *)
(*                                                                         *)
(* Granularity.  Every KVStore method that takes the mutex and releases it *)
(* with a deferred Unlock is one atomic step: no other task can read or    *)
(* write either mapping in between.  Get is the exception in the code: it  *)
(* releases the read lock after reading the value, calls expired() with no *)
(* lock held, and takes the write lock only to delete.  It is therefore    *)
(* three steps (Get_read, Get_expired, Get_delete) that interleave with    *)
(* every other task.  A handler that calls the store several times         *)
(* (RENAME, DEL) is one step per call.                                     *)
(*                                                                         *)
(* Time.  time.Time is modelled as an integer number of ticks, with        *)
(* TicksPerSec ticks to the second, so that the truncation to whole        *)
(* seconds in TTL is visible.                                              *)
(***************************************************************************)
EXTENDS Integers, Sequences, FiniteSets, TLC

\* ----------------------------------------------------------------- bounds

Keys == {"a", "b"}
Vals == {"x", "y"}
\* The connections of the server, and the tasks of the parallel-Set runs.
Clients == {"c1", "c2"}
Tasks == {"c1", "c2", "c3"}

\* The clock runs from 0 to MaxTime ticks.
MaxTime == 3
\* SETEX is given a TTL of 1..MaxTTL seconds.
MaxTTL == 1
\* The timers that may be armed at one time.
MaxTimers == 2
\* The commands that a connection of the counted server may have counted.
MaxCmds == 3
\* The channels, the messages and the callers of Publish.
Channels == {"news", "chat"}
Msgs == {"hi", "50%"}
Publishers == {"p1"}
\* The calls of Write that a connection may have received.
MaxWire == 2
\* Clock resolution: ticks per second.
TicksPerSec == 2

\* ---------------------------------------------------------- text helpers

Digits == <<"0", "1", "2", "3", "4", "5", "6", "7", "8", "9">>

\* strconv.Itoa, for the one-digit numbers the model produces.
Itoa(n) == IF n < 0 THEN "-" \o Digits[(-n) + 1] ELSE Digits[n + 1]

\* strconv.Atoi, for one-token inputs: a decimal digit parses, anything
\* else is an error.
Atoi(s) ==
    IF \E n \in 0..9 : Digits[n + 1] = s
    THEN [err |-> FALSE, n |-> CHOOSE n \in 0..9 : Digits[n + 1] = s]
    ELSE [err |-> TRUE, n |-> 0]

\* strings.ToUpper on the command names the inputs use.
ToUpper(s) ==
    CASE s = "flush" -> "FLUSH"
      [] OTHER -> s

OK == "OK"
KeyNotFound == "ERROR: Key not found"
InvalidCommand == "ERROR: Invalid command."

formatInvalidCommand(cmd, expected) ==
    "ERROR: Invalid " \o cmd \o " command. Expected format: " \o expected

formatInvalidTTL(ttlStr) ==
    "ERROR: Invalid TTL value '" \o ttlStr \o "'. TTL must be a positive integer."

\* ------------------------------------------------------- map primitives

\* A Go map is a function on the set of keys it holds.
EmptyMap == [k \in {} |-> ""]

\* m[k] = v
Put(m, k, v) == [x \in (DOMAIN m) \cup {k} |-> IF x = k THEN v ELSE m[x]]

\* delete(m, k)
Remove(m, k) == [x \in (DOMAIN m) \ {k} |-> m[x]]

\* ------------------------------------------------------------- KVStore
\* Each operator is the body of one method between Lock and Unlock, as a
\* function of the two mappings d (data) and e (expirations) and of the
\* clock t where the method reads it.

\* int(time.Until(x).Seconds()): Go's conversion truncates toward zero.
TruncSeconds(ticks) ==
    IF ticks >= 0 THEN ticks \div TicksPerSec ELSE -((-ticks) \div TicksPerSec)

expired(e, t, key) == key \in DOMAIN e /\ t > e[key]

\* Set without the deletion of the key's expiration.
SetKeepsExpiration(d, e, key, value) ==
    [data |-> Put(d, key, value), expirations |-> e]

Set(d, e, key, value) ==
    [data |-> Put(d, key, value), expirations |-> Remove(e, key)]

SetEx(d, e, t, key, value, ttl) ==
    [data |-> Put(d, key, value),
     expirations |-> Put(e, key, t + ttl * TicksPerSec)]

Contains(d, key) == key \in DOMAIN d

TTL(d, e, t, key) ==
    IF key \notin DOMAIN d THEN -2
    ELSE IF key \notin DOMAIN e THEN -1
    ELSE LET secondsRemaining == TruncSeconds(e[key] - t)
         IN  IF secondsRemaining < 0 THEN -2 ELSE secondsRemaining

\* Persist that reports 1 and leaves the expiration in place.
PersistKeepsExpiration(d, e, key) ==
    IF key \notin DOMAIN d THEN [data |-> d, expirations |-> e, ret |-> 0]
    ELSE IF key \notin DOMAIN e THEN [data |-> d, expirations |-> e, ret |-> 0]
    ELSE [data |-> d, expirations |-> e, ret |-> 1]

Persist(d, e, key) ==
    IF key \notin DOMAIN d THEN [data |-> d, expirations |-> e, ret |-> 0]
    ELSE IF key \notin DOMAIN e THEN [data |-> d, expirations |-> e, ret |-> 0]
    ELSE [data |-> d, expirations |-> Remove(e, key), ret |-> 1]

\* Rename without the deletion of the old key's expiration.
RenameKeepsOldExpiration(d, e, oldKey, newKey) ==
    IF oldKey \notin DOMAIN d THEN [data |-> d, expirations |-> e, ret |-> 0]
    ELSE LET d2 == Put(Remove(d, oldKey), newKey, d[oldKey])
             e2 == IF oldKey \in DOMAIN e
                   THEN Put(e, newKey, e[oldKey])
                   ELSE e
         IN  [data |-> d2, expirations |-> e2, ret |-> 1]

Rename(d, e, oldKey, newKey) ==
    IF oldKey \notin DOMAIN d THEN [data |-> d, expirations |-> e, ret |-> 0]
    ELSE LET d2 == Put(Remove(d, oldKey), newKey, d[oldKey])
             e2 == IF oldKey \in DOMAIN e
                   THEN Put(Remove(e, oldKey), newKey, e[oldKey])
                   ELSE e
         IN  [data |-> d2, expirations |-> e2, ret |-> 1]

\* RenameNX without the test of the new key.
RenameNXOverwrites(d, e, oldKey, newKey) ==
    IF oldKey \notin DOMAIN d THEN [data |-> d, expirations |-> e, ret |-> 0]
    ELSE LET d2 == Put(Remove(d, oldKey), newKey, d[oldKey])
             e2 == IF oldKey \in DOMAIN e
                   THEN Put(Remove(e, oldKey), newKey, e[oldKey])
                   ELSE e
         IN  [data |-> d2, expirations |-> e2, ret |-> 1]

RenameNX(d, e, oldKey, newKey) ==
    IF oldKey \notin DOMAIN d THEN [data |-> d, expirations |-> e, ret |-> 0]
    ELSE IF newKey \in DOMAIN d THEN [data |-> d, expirations |-> e, ret |-> 0]
    ELSE LET d2 == Put(Remove(d, oldKey), newKey, d[oldKey])
             e2 == IF oldKey \in DOMAIN e
                   THEN Put(Remove(e, oldKey), newKey, e[oldKey])
                   ELSE e
         IN  [data |-> d2, expirations |-> e2, ret |-> 1]

\* Delete that returns nil also for a key it does not hold.
DeleteReportsNil(d, e, key) ==
    [data |-> Remove(d, key), expirations |-> Remove(e, key), err |-> FALSE]

\* err is TRUE for errors.New(KeyNotFound), FALSE for nil.
Delete(d, e, key) ==
    IF key \notin DOMAIN d THEN [data |-> d, expirations |-> e, err |-> TRUE]
    ELSE [data |-> Remove(d, key), expirations |-> Remove(e, key), err |-> FALSE]

Flush == [data |-> EmptyMap, expirations |-> EmptyMap]

\* cleanUp that deletes nothing.
cleanUpNothing(d, e, t) == [data |-> d, expirations |-> e]

\* The loop over s.data: every key that is expired is deleted from both maps.
cleanUp(d, e, t) ==
    LET dead == {k \in DOMAIN d : expired(e, t, k)}
    IN  [data |-> [k \in (DOMAIN d) \ dead |-> d[k]],
         expirations |-> [k \in (DOMAIN e) \ dead |-> e[k]]]


\* ------------------------------------------------------------- Metrics
\* Each operator is the body of one method of Metrics between Lock and
\* Unlock, as a function of the CommandCounts map m.

NewMetrics == [ActiveClients |-> 0, CommandCounts |-> EmptyMap]

\* The names reach Inc in upper case already.
Inc(m, command) ==
    IF command \notin DOMAIN m
    THEN Put(m, command, 1)
    ELSE [m EXCEPT ![command] = @ + 1]

Get(m, command) == IF command \notin DOMAIN m THEN 0 ELSE m[command]

RECURSIVE SumOver(_, _)
SumOver(m, names) ==
    IF names = {} THEN 0
    ELSE LET n == CHOOSE x \in names : TRUE
         IN  m[n] + SumOver(m, names \ {n})

TotalCommands(m) == SumOver(m, (DOMAIN m) \ {"ERROR"})

\* ----------------------------------------------------------- reply text

\* strings.Join(seq, "\n")
RECURSIVE JoinLines(_)
JoinLines(seq) ==
    IF seq = <<>> THEN ""
    ELSE IF Len(seq) = 1 THEN seq[1]
    ELSE seq[1] \o "\n" \o JoinLines(Tail(seq))

\* What strings.TrimRight(sb, "\n") leaves of the entries written to sb each
\* with a "\n" after it: the trailing empty entries go with the newlines.
RECURSIVE TrimRight(_)
TrimRight(entries) ==
    IF entries = <<>> THEN <<>>
    ELSE IF entries[Len(entries)] = ""
    THEN TrimRight(SubSeq(entries, 1, Len(entries) - 1))
    ELSE entries

\* The counters that statsString prints, in its order.
tracked ==
    <<"SET", "GET", "SETEX", "DELETE", "DELETEEX", "KEYEXISTS", "FLUSH",
      "SAVE", "LOAD", "KEYS", "PING", "INFO", "HELP", "ERROR">>

RECURSIVE statsLines(_, _)
statsLines(m, names) ==
    IF names = <<>> THEN ""
    ELSE Head(names) \o ": " \o Itoa(Get(m, Head(names))) \o "\n"
         \o statsLines(m, Tail(names))

\* statsString on the snapshot ms of the metrics.
statsString(ms) ==
    "Active clients: " \o Itoa(ms.ActiveClients) \o "\n"
    \o statsLines(ms.CommandCounts, tracked)

\* ------------------------------------------------------------ the state

VARIABLES
    data,         \* KVStore.data: key -> value
    expirations,  \* KVStore.expirations: key -> expiration instant (ticks)
    now,          \* the clock, in ticks
    pc,           \* per connection handler: where it is in its loop
    tokens,       \* per handler: the tokens of the command being processed
    local,        \* per handler: the locals of the running command
    reply,        \* per handler: the response about to be written
    inbox,        \* per connection: the lines sent and not yet read
    script,       \* history: the lines each task was given at the start
    own,          \* history: per handler, the key of its last SET or of
                  \*   its running GET, while nobody else has written,
                  \*   deleted, renamed or flushed that key
    last,         \* history: the direct call of a KVStore method that the
                  \*   step just taken made
    plain,        \* history: the keys whose entry was written by Set
    ttlOf,        \* history: the TTL given to the SETEX behind an expiration
    metrics,      \* Metrics: ActiveClients and CommandCounts
    disk,         \* the snapshot file data.txt
    timers,       \* the time.AfterFunc timers armed and not yet fired
    Subscribtions, \* PubSubManager.Subscribtions: channel -> set of connections
    conns,        \* Connections.conns: the registered connections
    sock,         \* per connection: "none" before Accept returns it, then
                  \*   "open" until someone calls conn.Close ("closed")
    wire,         \* per connection: what has been written to it, one entry
                  \*   (the bytes) per call of Write
    srv,          \* the listener, the signal channel, the shutdown goroutine,
                  \*   the done channel and the sweep goroutine
    pub,          \* per caller of Publish: where it is in its loop
    joined,       \* history: per channel, the connections that subscribed
                  \*   and have not unsubscribed since
    mu,           \* per component, its sync.RWMutex: the task that holds
                  \*   Lock ("" for none) and the tasks that hold RLock
    calls         \* history of the calls of Metrics: per name the calls of
                  \*   Inc that have returned, and what the last Snapshot
                  \*   had in front of it when it took its lock

vars == <<data, expirations, now, pc, tokens, local, reply,
          inbox, script, own, last, plain, ttlOf, metrics, disk, timers,
          Subscribtions, conns, sock, wire, srv, pub, joined, mu, calls>>

\* The components with a lock of their own.
Components == {"store", "metrics", "pubsub", "registry"}

\* A sync.RWMutex nobody holds.
Unlocked == [w |-> "", r |-> {}]

\* No call of Metrics has been made.
NoCalls == [inc |-> EmptyMap, seen |-> [ActiveClients |-> 0, CommandCounts |-> EmptyMap]]

\* The state of the network side: subscriptions, registry, sockets, listener.
netVars == <<Subscribtions, conns, sock, wire, srv, pub, joined, mu, calls>>

NoTokens == <<>>
NoLocal == [value |-> "", i |-> 0, count |-> 0, out |-> <<>>]
NoReply == ""
\* value: what the handler's own SET wrote; due: the handler's GET was issued
\* at or after the expiration instant of the key.
NoOwn == [key |-> "", value |-> "", due |-> FALSE]
NoLast == [op |-> "", args |-> <<>>, ret |-> 0, ttl |-> FALSE]
\* os.Open finds no file.
NoFile ==
    [exists |-> FALSE, bad |-> FALSE, data |-> EmptyMap,
     expirations |-> EmptyMap,
     saved |-> [data |-> EmptyMap, expirations |-> EmptyMap]]

\* ------------------------------------------------------------ the inputs

TTLStrs == {Itoa(n) : n \in 1..MaxTTL} \cup {"0", "abc"}

SetLines == {<<"SET", k, v>> : k \in Keys, v \in Vals}

\* The token lists a client may send.  strings.Split never returns an empty
\* list, so every input has at least the command token.
Inputs ==
    {<<"GET", k>> : k \in Keys}
    \cup SetLines
    \cup {<<"SETEX", kv[1], kv[2], s>> : kv \in Keys \X Vals, s \in TTLStrs}
    \cup {<<"TTL", k>> : k \in Keys}
    \cup {<<"RENAME", o, n>> : o \in Keys, n \in Keys}
    \cup {<<"DELETE", k>> : k \in Keys}
    \cup {<<"DEL", k>> : k \in Keys}
    \cup {<<"DEL", k1, k2>> : k1 \in Keys, k2 \in Keys}
    \cup {<<"FLUSH">>, <<"flush">>}
    \cup {<<"SET", "a">>}
    \cup {<<"NOPE">>, <<"">>}

cmdOf(toks) == ToUpper(toks[1])

\* The inputs that processCommand dispatches to the handler of cmd.
LinesFor(cmd) == {toks \in Inputs : cmdOf(toks) = cmd}
GetLines == LinesFor("GET")
SetExLines == LinesFor("SETEX")
TTLLines == LinesFor("TTL")
RenameLines == LinesFor("RENAME")
DeleteLines == LinesFor("DELETE")
DelLines == LinesFor("DEL")
FlushLines == LinesFor("FLUSH")
SetCmdLines == LinesFor("SET")

\* The commands of processCommand's switch that the model covers, each with
\* the arity test of its handler and the usage text of its error reply.
KnownCommands ==
    {"GET", "MGET", "KEYEXISTS", "TYPE", "SET", "MSET", "SETEX", "TTL",
     "RENAME", "STATS", "DELETE", "DEL", "DELETEEX", "FLUSH", "SAVE", "LOAD",
     "KEYS", "INFO", "HELP", "PING", "SHUTDOWN"}

ArityOK(toks) ==
    CASE cmdOf(toks) = "GET" -> Len(toks) = 2
      [] cmdOf(toks) = "SET" -> Len(toks) = 3
      [] cmdOf(toks) = "SETEX" -> Len(toks) = 4
      [] cmdOf(toks) = "TTL" -> Len(toks) = 2
      [] cmdOf(toks) = "RENAME" -> Len(toks) = 3
      [] cmdOf(toks) = "DELETE" -> Len(toks) = 2
      [] cmdOf(toks) = "DEL" -> Len(toks) >= 2
      [] cmdOf(toks) = "FLUSH" -> Len(toks) = 1
      [] cmdOf(toks) = "MGET" -> Len(toks) >= 2
      [] cmdOf(toks) = "KEYEXISTS" -> Len(toks) = 2
      [] cmdOf(toks) = "TYPE" -> Len(toks) = 2
      [] cmdOf(toks) = "MSET" -> ~(Len(toks) < 3 \/ Len(toks) % 2 # 1)
      [] cmdOf(toks) = "STATS" -> Len(toks) = 1
      [] cmdOf(toks) = "DELETEEX" -> Len(toks) = 3
      [] cmdOf(toks) = "SAVE" -> Len(toks) = 1
      [] cmdOf(toks) = "LOAD" -> Len(toks) = 1
      [] cmdOf(toks) = "KEYS" -> Len(toks) = 1
      [] cmdOf(toks) = "INFO" -> Len(toks) = 1
      [] cmdOf(toks) = "HELP" -> Len(toks) = 1
      [] cmdOf(toks) = "PING" -> Len(toks) = 1
      [] cmdOf(toks) = "SHUTDOWN" -> Len(toks) = 1
      [] OTHER -> FALSE

Usage(cmd) ==
    CASE cmd = "GET" -> "GET <key>"
      [] cmd = "SET" -> "SET <key> <value>"
      [] cmd = "SETEX" -> "SETEX <key> <value> <ttl_seconds>"
      [] cmd = "TTL" -> "TTL <key>"
      [] cmd = "RENAME" -> "RENAME <oldKey> <newKey>"
      [] cmd = "DELETE" -> "DELETE <key>"
      [] cmd = "DEL" -> "DEL <key1> <key2> ..."
      [] cmd = "FLUSH" -> "FLUSH"
      [] cmd = "MGET" -> "MGET <key1> <key2> ..."
      [] cmd = "KEYEXISTS" -> "KEYEXISTS <key>"
      [] cmd = "TYPE" -> "TYPE <key>"
      [] cmd = "MSET" -> "MSET <key1> <val1> <key2> <val2> ..."
      [] cmd = "STATS" -> "STATS"
      [] cmd = "DELETEEX" -> "DELETEEX <key> <ttl_seconds>"
      [] cmd = "SAVE" -> "SAVE"
      [] cmd = "LOAD" -> "LOAD"
      [] cmd = "KEYS" -> "KEYS"
      [] cmd = "INFO" -> "INFO"
      [] cmd = "HELP" -> "INFO"
      [] cmd = "PING" -> "PING"
      [] cmd = "SHUTDOWN" -> "SHUTDOWN"
      [] OTHER -> ""

\* The command name that the handler of cmd puts in its usage error:
\* handleHelp names INFO.
UsageName(cmd) == IF cmd = "HELP" THEN "INFO" ELSE cmd

\* ------------------------------------------------- the history variables
\* They record what happened and never restrict a step.

\* The handler c ends up with the record mine; the other handlers lose theirs
\* when the step writes, deletes, renames or flushes a key of `touched`.
OwnAfter(c, mine, touched) ==
    own' = [x \in DOMAIN own |->
              IF x = c THEN mine
              ELSE IF own[x].key \in touched THEN NoOwn ELSE own[x]]

\* c starts a GET of key: what its own SET wrote survives into a GET of the
\* same key, and the GET is due when the key's expiration instant is reached.
OwnInto(c, key) ==
    LET value == IF own[c].key = key THEN own[c].value ELSE ""
        due == key \in DOMAIN expirations /\ now >= expirations[key]
    IN  IF value = "" /\ ~due THEN NoOwn
        ELSE [key |-> key, value |-> value, due |-> due]

\* The call a step made: op(args) returned ret; ttl says whether the first
\* key had an expiration before the call.
Called(op, args, ret) ==
    last' = [op |-> op, args |-> args, ret |-> ret,
             ttl |-> args[1] \in DOMAIN expirations]

\* After the step, the keys in `byset` were written by Set; a key stays
\* plain as long as it keeps its entry, gets no expiration and is not in
\* `dropped`.
PlainAfter(byset, dropped) ==
    plain' = byset \cup
             {k \in plain \ dropped :
                 k \in DOMAIN data' /\ k \notin DOMAIN expirations'}

\* After the step, the expiration of key k was given the TTL f[k], for the
\* keys of f, and the other expirations keep theirs.
TtlAfter(f) ==
    ttlOf' = [k \in DOMAIN expirations' |->
                IF k \in DOMAIN f THEN f[k] ELSE ttlOf[k]]

\* What a performed rename does to the histories of its two keys.
RenameHistory(r, oldKey, newKey) ==
    /\ PlainAfter({}, IF r.ret = 1 /\ oldKey # newKey THEN {oldKey, newKey} ELSE {})
    /\ TtlAfter(IF r.ret = 1 /\ oldKey \in DOMAIN expirations
                THEN [k \in {newKey} |-> ttlOf[oldKey]]
                ELSE EmptyMap)

\* ------------------------------------------------------------- handlers

IdleConns ==
    /\ pc = [c \in Tasks |-> "idle"]
    /\ tokens = [c \in Tasks |-> NoTokens]
    /\ local = [c \in Tasks |-> NoLocal]
    /\ reply = [c \in Tasks |-> NoReply]
    /\ own = [c \in Tasks |-> NoOwn]

\* Publish is not running.
NoPub == [pc |-> "idle", channel |-> "", message |-> "", rest |-> {},
          count |-> 0, failed |-> {}]

\* net.Listen has returned, setupShutdownHook has started its goroutine,
\* ScheduleCleanup its own; no signal has come.
Listening ==
    [ln |-> "open", sigCh |-> 0, hook |-> "waiting", rest |-> {},
     done |-> "open", sweeper |-> "running"]

\* NewPubSubManager(), NewConnections(), no connection accepted yet.
NetInit ==
    /\ Subscribtions = EmptyMap
    /\ conns = {}
    /\ sock = [c \in Tasks |-> "none"]
    /\ wire = [c \in Tasks |-> <<>>]
    /\ srv = Listening
    /\ pub = [p \in Publishers |-> NoPub]
    /\ joined = [ch \in Channels |-> {}]
    /\ mu = [x \in Components |-> Unlocked]
    /\ calls = NoCalls

\* The state after kvstore.New() and NewMetrics ... : an empty store.
Init ==
    /\ data = EmptyMap
    /\ expirations = EmptyMap
    /\ now = 0
    /\ IdleConns
    /\ last = NoLast
    /\ inbox = [c \in Tasks |-> <<>>]
    /\ script = [c \in Tasks |-> <<>>]
    /\ plain = {}
    /\ ttlOf = EmptyMap
    /\ metrics = NewMetrics
    /\ disk = NoFile
    /\ timers = <<>>
    /\ NetInit

\* handleConnection has read the line toks and processCommand dispatches it
\* to the handler of cmd.
Reads(c, toks, cmd) ==
    /\ pc[c] = "idle"
    /\ cmdOf(toks) = cmd

\* The handler returns r: handleConnection goes on to write it.
Respond(c, r) ==
    /\ pc' = [pc EXCEPT ![c] = "write"]
    /\ reply' = [reply EXCEPT ![c] = r]
    /\ tokens' = [tokens EXCEPT ![c] = NoTokens]
    /\ local' = [local EXCEPT ![c] = NoLocal]

\* The handler goes on to its next store call.
Goto(c, label, toks, loc) ==
    /\ pc' = [pc EXCEPT ![c] = label]
    /\ tokens' = [tokens EXCEPT ![c] = toks]
    /\ local' = [local EXCEPT ![c] = loc]
    /\ UNCHANGED reply

Store(r) ==
    /\ data' = r.data
    /\ expirations' = r.expirations

\* A connection that is closed after the write of the key-not-found or of
\* the invalid-command error.
WriteClosesOnError(c) ==
    /\ pc[c] = "write"
    /\ pc' = [pc EXCEPT ![c] = IF reply[c] \in {KeyNotFound, InvalidCommand}
                               THEN "closed" ELSE "idle"]
    /\ reply' = [reply EXCEPT ![c] = NoReply]
    /\ last' = NoLast
    /\ UNCHANGED <<data, expirations, now, tokens, local, own, plain, ttlOf>>

\* conn.Write(response + "\nEND\n"), then back to reading the next line.
Write(c) ==
    /\ pc[c] = "write"
    /\ pc' = [pc EXCEPT ![c] = "idle"]
    /\ reply' = [reply EXCEPT ![c] = NoReply]
    /\ last' = NoLast
    /\ UNCHANGED <<data, expirations, now, tokens, local, own, plain, ttlOf>>

\* An arity branch that comes after the first kv.Set of MSET.
ArityErrorAfterFirstSet(c, toks) ==
    /\ pc[c] = "idle"
    /\ cmdOf(toks) \in KnownCommands
    /\ ~ArityOK(toks)
    /\ Respond(c, formatInvalidCommand(UsageName(cmdOf(toks)), Usage(cmdOf(toks))))
    /\ OwnAfter(c, NoOwn, {})
    /\ last' = NoLast
    /\ data' = IF cmdOf(toks) = "MSET" /\ Len(toks) >= 3
               THEN Put(data, toks[2], toks[3])
               ELSE data
    /\ UNCHANGED <<expirations, now, plain, ttlOf>>

\* A known command with the wrong number of tokens.
ArityError(c, toks) ==
    /\ pc[c] = "idle"
    /\ cmdOf(toks) \in KnownCommands
    /\ ~ArityOK(toks)
    /\ Respond(c, formatInvalidCommand(UsageName(cmdOf(toks)), Usage(cmdOf(toks))))
    /\ OwnAfter(c, NoOwn, {})
    /\ last' = NoLast
    /\ UNCHANGED <<data, expirations, now, plain, ttlOf>>

\* processCommand's default branch.
UnknownCommand(c, toks) ==
    /\ pc[c] = "idle"
    /\ cmdOf(toks) \notin KnownCommands
    /\ Respond(c, InvalidCommand)
    /\ OwnAfter(c, NoOwn, {})
    /\ last' = NoLast
    /\ UNCHANGED <<data, expirations, now, plain, ttlOf>>

\* What the caller of kv.Get does with its result.
GetReturns(c, value, err) ==
    IF err THEN Respond(c, KeyNotFound) ELSE Respond(c, value)

\* handleGet up to the end of Get's read-locked section.
handleGet(c, toks) ==
    /\ Reads(c, toks, "GET")
    /\ ArityOK(toks)
    /\ IF toks[2] \notin DOMAIN data
       THEN /\ GetReturns(c, "", TRUE)
            /\ OwnAfter(c, NoOwn, {})
       ELSE /\ Goto(c, "get_expired", toks, [NoLocal EXCEPT !.value = data[toks[2]]])
            /\ OwnAfter(c, OwnInto(c, toks[2]), {})
    /\ last' = NoLast
    /\ UNCHANGED <<data, expirations, now, plain, ttlOf>>

\* Get: s.expired(key), called with no lock held.
Get_expired(c) ==
    /\ pc[c] = "get_expired"
    /\ IF expired(expirations, now, tokens[c][2])
       THEN /\ Goto(c, "get_delete", tokens[c], NoLocal)
            /\ UNCHANGED own
       ELSE /\ GetReturns(c, local[c].value, FALSE)
            /\ OwnAfter(c, NoOwn, {})
    /\ last' = NoLast
    /\ UNCHANGED <<data, expirations, now, plain, ttlOf>>

\* Get: the write-locked deletion of the key seen as expired.
Get_delete(c) ==
    /\ pc[c] = "get_delete"
    /\ data' = Remove(data, tokens[c][2])
    /\ expirations' = Remove(expirations, tokens[c][2])
    /\ GetReturns(c, "", TRUE)
    /\ OwnAfter(c, NoOwn, {})
    /\ PlainAfter({}, {})
    /\ TtlAfter(EmptyMap)
    /\ last' = NoLast
    /\ UNCHANGED now

handleSet(c, toks) ==
    /\ Reads(c, toks, "SET")
    /\ ArityOK(toks)
    /\ Store(Set(data, expirations, toks[2], toks[3]))
    /\ Respond(c, OK)
    /\ OwnAfter(c, [key |-> toks[2], value |-> toks[3], due |-> FALSE], {toks[2]})
    /\ PlainAfter({toks[2]}, {})
    /\ TtlAfter(EmptyMap)
    /\ last' = NoLast
    /\ UNCHANGED now

handleSetEx(c, toks) ==
    /\ Reads(c, toks, "SETEX")
    /\ ArityOK(toks)
    /\ LET ttl == Atoi(toks[4])
       IN  IF ttl.err \/ ttl.n <= 0
           THEN /\ Respond(c, formatInvalidTTL(toks[4]))
                /\ OwnAfter(c, NoOwn, {})
                /\ UNCHANGED <<data, expirations, plain, ttlOf>>
           ELSE /\ Store(SetEx(data, expirations, now, toks[2], toks[3], ttl.n))
                /\ Respond(c, OK)
                /\ OwnAfter(c, NoOwn, {toks[2]})
                /\ PlainAfter({}, {toks[2]})
                /\ TtlAfter([k \in {toks[2]} |-> ttl.n])
    /\ last' = NoLast
    /\ UNCHANGED now

\* handleTTL that ends its reply with a newline.
handleTTLNewline(c, toks) ==
    /\ Reads(c, toks, "TTL")
    /\ ArityOK(toks)
    /\ Respond(c, Itoa(TTL(data, expirations, now, toks[2])) \o "\n")
    /\ OwnAfter(c, NoOwn, {})
    /\ last' = NoLast
    /\ UNCHANGED <<data, expirations, now, plain, ttlOf>>

handleTTL(c, toks) ==
    /\ Reads(c, toks, "TTL")
    /\ ArityOK(toks)
    /\ Respond(c, Itoa(TTL(data, expirations, now, toks[2])))
    /\ OwnAfter(c, NoOwn, {})
    /\ last' = NoLast
    /\ UNCHANGED <<data, expirations, now, plain, ttlOf>>

\* handleRename up to the result of kv.Contains(oldKey).
handleRename(c, toks) ==
    /\ Reads(c, toks, "RENAME")
    /\ ArityOK(toks)
    /\ IF ~Contains(data, toks[2])
       THEN Respond(c, KeyNotFound)
       ELSE Goto(c, "rename", toks, NoLocal)
    /\ OwnAfter(c, NoOwn, {})
    /\ last' = NoLast
    /\ UNCHANGED <<data, expirations, now, plain, ttlOf>>

\* handleRename: kv.Rename(oldKey, newKey), its result dropped.
handleRename_rename(c) ==
    LET r == Rename(data, expirations, tokens[c][2], tokens[c][3])
    IN  /\ pc[c] = "rename"
        /\ Store(r)
        /\ Respond(c, OK)
        /\ OwnAfter(c, NoOwn, {tokens[c][2], tokens[c][3]})
        /\ RenameHistory(r, tokens[c][2], tokens[c][3])
        /\ last' = NoLast
        /\ UNCHANGED now

handleDelete(c, toks) ==
    /\ Reads(c, toks, "DELETE")
    /\ ArityOK(toks)
    /\ LET r == Delete(data, expirations, toks[2])
       IN  /\ Store(r)
           /\ Respond(c, IF r.err THEN KeyNotFound ELSE OK)
           /\ last' = NoLast
    /\ OwnAfter(c, NoOwn, {toks[2]})
    /\ PlainAfter({}, {})
    /\ TtlAfter(EmptyMap)
    /\ UNCHANGED now

\* One round of handleDel's loop: kv.Delete(tokens[i]) and the count.
DelRound(c, toks, i, count) ==
    LET r == Delete(data, expirations, toks[i])
        n == IF r.err THEN count ELSE count + 1
    IN  /\ Store(r)
        /\ IF i = Len(toks)
           THEN Respond(c, Itoa(n))
           ELSE Goto(c, "del", toks, [NoLocal EXCEPT !.i = i + 1, !.count = n])
        /\ last' = NoLast
        /\ OwnAfter(c, NoOwn, {toks[i]})
        /\ PlainAfter({}, {})
        /\ TtlAfter(EmptyMap)

handleDel(c, toks) ==
    /\ Reads(c, toks, "DEL")
    /\ ArityOK(toks)
    /\ DelRound(c, toks, 2, 0)
    /\ UNCHANGED now

handleDel_next(c) ==
    /\ pc[c] = "del"
    /\ DelRound(c, tokens[c], local[c].i, local[c].count)
    /\ UNCHANGED now

handleFlush(c, toks) ==
    /\ Reads(c, toks, "FLUSH")
    /\ ArityOK(toks)
    /\ Store(Flush)
    /\ Respond(c, OK)
    /\ OwnAfter(c, NoOwn, Keys)
    /\ PlainAfter({}, {})
    /\ TtlAfter(EmptyMap)
    /\ last' = NoLast
    /\ UNCHANGED now

\* The ticker of ScheduleCleanup fires: one cleanUp.
sweep ==
    /\ Store(cleanUp(data, expirations, now))
    /\ PlainAfter({}, {})
    /\ TtlAfter(EmptyMap)
    /\ last' = NoLast
    /\ UNCHANGED <<now, pc, tokens, local, reply, own>>

\* Time passes.
Tick ==
    /\ now < MaxTime
    /\ now' = now + 1
    /\ last' = NoLast
    /\ UNCHANGED <<data, expirations, pc, tokens, local, reply, own, plain, ttlOf>>

\* The server: any client sends any line at any time.
Next ==
    /\ UNCHANGED <<inbox, script, metrics, disk, timers>>
    /\ UNCHANGED netVars
    /\ \/ \E c \in Clients, toks \in GetLines : handleGet(c, toks)
       \/ \E c \in Clients : Get_expired(c)
       \/ \E c \in Clients : Get_delete(c)
       \/ \E c \in Clients, toks \in SetCmdLines : handleSet(c, toks)
       \/ \E c \in Clients, toks \in SetExLines : handleSetEx(c, toks)
       \/ \E c \in Clients, toks \in TTLLines : handleTTL(c, toks)
       \/ \E c \in Clients, toks \in RenameLines : handleRename(c, toks)
       \/ \E c \in Clients : handleRename_rename(c)
       \/ \E c \in Clients, toks \in DeleteLines : handleDelete(c, toks)
       \/ \E c \in Clients, toks \in DelLines : handleDel(c, toks)
       \/ \E c \in Clients : handleDel_next(c)
       \/ \E c \in Clients, toks \in FlushLines : handleFlush(c, toks)
       \/ \E c \in Clients, toks \in Inputs : ArityError(c, toks)
       \/ \E c \in Clients, toks \in Inputs : UnknownCommand(c, toks)
       \/ \E c \in Clients : Write(c)
       \/ sweep
       \/ Tick

Spec == Init /\ [][Next]_vars

\* ------------------------------------------------- the KVStore by itself
\* The package's methods called directly, by any number of callers in any
\* order: every method of KVStore is one call here, also Persist and
\* RenameNX, which no command of the server reaches.  Get is called by the
\* callers in Clients through handleGet, in its three steps.

\* No caller's own SET is followed here.
Direct(touched) ==
    /\ own' = [x \in DOMAIN own |-> IF own[x].key \in touched THEN NoOwn ELSE own[x]]
    /\ UNCHANGED <<now, pc, tokens, local, reply>>

callSet(key, value) ==
    /\ Store(Set(data, expirations, key, value))
    /\ last' = NoLast
    /\ PlainAfter({key}, {})
    /\ TtlAfter(EmptyMap)
    /\ Direct({key})

callSetEx(key, value, ttl) ==
    /\ Store(SetEx(data, expirations, now, key, value, ttl))
    /\ last' = NoLast
    /\ PlainAfter({}, {key})
    /\ TtlAfter([k \in {key} |-> ttl])
    /\ Direct({key})

callPersist(key) ==
    LET r == Persist(data, expirations, key)
    IN  /\ Store(r)
        /\ Called("Persist", <<key>>, r.ret)
        /\ PlainAfter({}, {})
        /\ TtlAfter(EmptyMap)
        /\ Direct({key})

callRename(oldKey, newKey) ==
    LET r == Rename(data, expirations, oldKey, newKey)
    IN  /\ Store(r)
        /\ Called("Rename", <<oldKey, newKey>>, r.ret)
        /\ RenameHistory(r, oldKey, newKey)
        /\ Direct({oldKey, newKey})

callRenameNX(oldKey, newKey) ==
    LET r == RenameNX(data, expirations, oldKey, newKey)
    IN  /\ Store(r)
        /\ Called("RenameNX", <<oldKey, newKey>>, r.ret)
        /\ RenameHistory(r, oldKey, newKey)
        /\ Direct({oldKey, newKey})

callDelete(key) ==
    LET r == Delete(data, expirations, key)
    IN  /\ Store(r)
        /\ last' = NoLast
        /\ PlainAfter({}, {})
        /\ TtlAfter(EmptyMap)
        /\ Direct({key})

callFlush ==
    /\ Store(Flush)
    /\ last' = NoLast
    /\ PlainAfter({}, {})
    /\ TtlAfter(EmptyMap)
    /\ Direct(Keys)

NextStore ==
    /\ UNCHANGED <<inbox, script, metrics, disk, timers>>
    /\ UNCHANGED netVars
    /\ \/ \E c \in Clients, k \in Keys : handleGet(c, <<"GET", k>>)
       \/ \E c \in Clients : Get_expired(c)
       \/ \E c \in Clients : Get_delete(c)
       \/ \E c \in Clients : Write(c)
       \/ \E k \in Keys, v \in Vals : callSet(k, v)
       \/ \E k \in Keys, v \in Vals, ttl \in 1..MaxTTL : callSetEx(k, v, ttl)
       \/ \E k \in Keys : callPersist(k)
       \/ \E o \in Keys, n \in Keys : callRename(o, n)
       \/ \E o \in Keys, n \in Keys : callRenameNX(o, n)
       \/ \E k \in Keys : callDelete(k)
       \/ callFlush
       \/ sweep
       \/ Tick

SpecStore == Init /\ [][NextStore]_vars

\* ----------------------------------------------------- parallel Set runs
\* Each task has at most one SET line to process; the store starts in a
\* state the server can be in: every key absent, or holding a value with no
\* expiration, a passed one or a coming one.

StartStores ==
    {st \in [data : [Keys -> Vals \cup {""}],
             expirations : [Keys -> {0, MaxTime - 1, MaxTime + 1}]] :
        \A k \in Keys : st.data[k] = "" => st.expirations[k] = 0}

InitSet ==
    /\ \E st \in StartStores :
          /\ data = [k \in {x \in Keys : st.data[x] # ""} |-> st.data[k]]
          /\ expirations = [k \in {x \in Keys : st.expirations[x] # 0} |->
                               st.expirations[k]]
    /\ now = MaxTime
    /\ IdleConns
    /\ last = NoLast
    /\ inbox \in [Tasks -> {<<>>} \cup {<<l>> : l \in SetLines}]
    /\ script = inbox
    /\ plain = {}
    /\ ttlOf = [k \in DOMAIN expirations |-> MaxTTL]
    /\ metrics = NewMetrics
    /\ disk = NoFile
    /\ timers = <<>>
    /\ NetInit

NextSet ==
    /\ UNCHANGED <<metrics, disk, timers>>
    /\ UNCHANGED netVars
    /\ \/ \E c \in Tasks :
             /\ inbox[c] # <<>>
             /\ handleSet(c, Head(inbox[c]))
             /\ inbox' = [inbox EXCEPT ![c] = Tail(inbox[c])]
             /\ UNCHANGED script
       \/ \E c \in Tasks :
             /\ Write(c)
             /\ UNCHANGED <<inbox, script>>

SpecSet == InitSet /\ [][NextSet]_vars

\* ------------------------------------------ the handlers of the other commands
\* As above, a handler is one step per store call; what it does to the
\* metrics is added where a specification follows the counters.

\* The handler leaves the store alone.
Frame(c) ==
    /\ OwnAfter(c, NoOwn, {})
    /\ last' = NoLast
    /\ UNCHANGED <<data, expirations, now, plain, ttlOf>>

handleKeyExists(c, toks) ==
    /\ Reads(c, toks, "KEYEXISTS")
    /\ ArityOK(toks)
    /\ Respond(c, IF Contains(data, toks[2]) THEN "1" ELSE "0")
    /\ Frame(c)

handleType(c, toks) ==
    /\ Reads(c, toks, "TYPE")
    /\ ArityOK(toks)
    /\ Respond(c, IF Contains(data, toks[2]) THEN "string" ELSE "none")
    /\ Frame(c)

handleStats(c, toks) ==
    /\ Reads(c, toks, "STATS")
    /\ ArityOK(toks)
    /\ Respond(c, statsString(metrics))
    /\ Frame(c)

handlePing(c, toks) ==
    /\ Reads(c, toks, "PING")
    /\ ArityOK(toks)
    /\ Respond(c, "PONG")
    /\ Frame(c)

\* The text handleHelp returns.
HelpText ==
    "Available commands:\n"
    \o "\tSET <key> <value>          - Store a key-value pair\n"
    \o "\tGET <key>                  - Retrieve a value\n"
    \o "\tSETEX <key> <value> <ttl>  - Store a key-value pair with expiration\n"
    \o "\tDELETE <key>               - Remove a key\n"
    \o "\tDELETEEX <key> <ttl>       - Remove a key after a delay\n"
    \o "\tKEYEXISTS <key>            - Check if a key exists\n"
    \o "\tFLUSH                      - Clear all keys\n"
    \o "\tKEYS                       - List all keys\n"
    \o "\tSTATS                      - Show usage metrics\n"
    \o "\tINFO                       - Show server config\n"
    \o "\tPING                       - Check if server is alive\n"
    \o "\tSAVE                       - Save store to disk\n"
    \o "\tLOAD                       - Load store from disk\n"
    \o "\tSHUTDOWN                   - Gracefully stop the server\n"
    \o "\tHELP                       - Show this help message"

handleHelp(c, toks) ==
    /\ Reads(c, toks, "HELP")
    /\ ArityOK(toks)
    /\ Respond(c, HelpText)
    /\ Frame(c)

ServerVersion == "1.0.0"

\* handleInfo's fmt.Sprintf; the server started at tick 0 and the uptime,
\* truncated to the second, prints as a number of seconds.
InfoText(uptime, activeClients, commandsProcessed, keysInStore) ==
    "Server Version: " \o ServerVersion \o "\n"
    \o "Uptime: " \o Itoa(TruncSeconds(uptime)) \o "s\n"
    \o "Active Clients: " \o Itoa(activeClients) \o "\n"
    \o "Total Commands Processed: " \o Itoa(commandsProcessed) \o "\n"
    \o "Keys in Store: " \o Itoa(keysInStore) \o "\n"

\* handleInfo up to the end of the cleanUp of its kv.Keys(): the uptime and
\* the two readings of the metrics, which no other task of the model writes
\* while this handler runs.
handleInfo(c, toks) ==
    /\ Reads(c, toks, "INFO")
    /\ ArityOK(toks)
    /\ Store(cleanUp(data, expirations, now))
    /\ Goto(c, "info_read", toks,
            [NoLocal EXCEPT !.i = now,
                            !.count = TotalCommands(metrics.CommandCounts)])
    /\ OwnAfter(c, NoOwn, {})
    /\ PlainAfter({}, {})
    /\ TtlAfter(EmptyMap)
    /\ last' = NoLast
    /\ UNCHANGED now

\* handleInfo: the read-locked range of its kv.Keys(), and the reply.
handleInfo_read(c) ==
    /\ pc[c] = "info_read"
    /\ Respond(c, InfoText(local[c].i, metrics.ActiveClients, local[c].count,
                           Cardinality(DOMAIN data)))
    /\ Frame(c)

\* handleMGet has the entry of key i: it goes on to the next key, or returns
\* what it has written to sb.
MGetAppend(c, toks, i, out, entry) ==
    IF i = Len(toks)
    THEN Respond(c, JoinLines(TrimRight(Append(out, entry))))
    ELSE Goto(c, "mget", toks, [NoLocal EXCEPT !.i = i + 1, !.out = Append(out, entry)])

\* One round of handleMGet's loop up to the end of Get's read-locked section.
MGetRound(c, toks, i, out) ==
    /\ IF toks[i] \notin DOMAIN data
       THEN MGetAppend(c, toks, i, out, "nil")
       ELSE Goto(c, "mget_expired", toks,
                 [NoLocal EXCEPT !.i = i, !.out = out, !.value = data[toks[i]]])
    /\ Frame(c)

handleMGet(c, toks) ==
    /\ Reads(c, toks, "MGET")
    /\ ArityOK(toks)
    /\ MGetRound(c, toks, 2, <<>>)

handleMGet_next(c) ==
    /\ pc[c] = "mget"
    /\ MGetRound(c, tokens[c], local[c].i, local[c].out)

\* Get inside handleMGet: s.expired(key), called with no lock held.
handleMGet_expired(c) ==
    /\ pc[c] = "mget_expired"
    /\ IF expired(expirations, now, tokens[c][local[c].i])
       THEN Goto(c, "mget_delete", tokens[c], local[c])
       ELSE MGetAppend(c, tokens[c], local[c].i, local[c].out, local[c].value)
    /\ Frame(c)

\* Get inside handleMGet: the write-locked deletion.
handleMGet_delete(c) ==
    /\ pc[c] = "mget_delete"
    /\ data' = Remove(data, tokens[c][local[c].i])
    /\ expirations' = Remove(expirations, tokens[c][local[c].i])
    /\ MGetAppend(c, tokens[c], local[c].i, local[c].out, "nil")
    /\ OwnAfter(c, NoOwn, {})
    /\ PlainAfter({}, {})
    /\ TtlAfter(EmptyMap)
    /\ last' = NoLast
    /\ UNCHANGED now

\* One round of handleMSet's loop: kv.Set(tokens[i], tokens[i+1]).
MSetRound(c, toks, i) ==
    /\ Store(Set(data, expirations, toks[i], toks[i + 1]))
    /\ IF i + 1 = Len(toks)
       THEN Respond(c, OK)
       ELSE Goto(c, "mset", toks, [NoLocal EXCEPT !.i = i + 2])
    /\ OwnAfter(c, NoOwn, {toks[i]})
    /\ PlainAfter({toks[i]}, {})
    /\ TtlAfter(EmptyMap)
    /\ last' = NoLast
    /\ UNCHANGED now

handleMSet(c, toks) ==
    /\ Reads(c, toks, "MSET")
    /\ ArityOK(toks)
    /\ MSetRound(c, toks, 2)

handleMSet_next(c) ==
    /\ pc[c] = "mset"
    /\ MSetRound(c, tokens[c], local[c].i)

\* The orders in which a range over a map with the key set S can yield them.
Orders(S) ==
    {seq \in [1..Cardinality(S) -> S] :
        \A i \in 1..Cardinality(S), j \in 1..Cardinality(S) :
            seq[i] = seq[j] => i = j}

\* handleKeys up to the end of the cleanUp that Keys starts with.
handleKeys(c, toks) ==
    /\ Reads(c, toks, "KEYS")
    /\ ArityOK(toks)
    /\ Store(cleanUp(data, expirations, now))
    /\ Goto(c, "keys_read", toks, NoLocal)
    /\ OwnAfter(c, NoOwn, {})
    /\ PlainAfter({}, {})
    /\ TtlAfter(EmptyMap)
    /\ last' = NoLast
    /\ UNCHANGED now

\* Keys: the read-locked range over s.data, and handleKeys' reply.
handleKeys_read(c) ==
    /\ pc[c] = "keys_read"
    /\ \E keys \in Orders(DOMAIN data) :
          Respond(c, IF Len(keys) = 0 THEN "EMPTY" ELSE JoinLines(keys))
    /\ Frame(c)

\* The %v of the error os.Create, os.Open or the codec returns.
IOError == "input/output error"
SaveFailed == "ERROR: Failed to save to disk: " \o IOError
LoadFailed == "ERROR: Failed to load data from disk: " \o IOError

\* A value with a byte that is no UTF-8, and what encoding/json writes for
\* it: the bytes of the replacement rune U+FFFD.
InvalidUTF8 == "[ff]"
ReplacementRune == "[fffd]"

\* A string as encoding/json writes it: coerced to valid UTF-8.
ValidUTF8(str) == IF str = InvalidUTF8 THEN ReplacementRune ELSE str

\* encoder.Encode of the two mappings: the document of the file.
Encode(d, e) == [data |-> [k \in DOMAIN d |-> ValidUTF8(d[k])], expirations |-> e]

\* Decode of the document of a file into the local struct stored.
Decode(file) == [data |-> file.data, expirations |-> file.expirations]

\* SaveToDisk: the file afterwards.  os.Create may fail, which leaves the
\* file; Encode may fail, which leaves the file os.Create has truncated.
\* saved is history: the mappings at the last save that succeeded.
SaveToDisk(err) ==
    IF err = "create" THEN disk
    ELSE IF err = "encode"
    THEN [exists |-> TRUE, bad |-> TRUE, data |-> EmptyMap,
          expirations |-> EmptyMap, saved |-> disk.saved]
    ELSE [exists |-> TRUE, bad |-> FALSE,
          data |-> Encode(data, expirations).data,
          expirations |-> Encode(data, expirations).expirations,
          saved |-> [data |-> data, expirations |-> expirations]]

\* The errors of SaveToDisk, "" for none.
SaveErrors == {"", "create", "encode"}

\* handleSave: SaveToDisk, and OK or the error it returned.
handleSave(c, toks) ==
    /\ Reads(c, toks, "SAVE")
    /\ ArityOK(toks)
    /\ \E err \in SaveErrors :
          /\ Respond(c, IF err = "" THEN OK ELSE SaveFailed)
          /\ disk' = SaveToDisk(err)
    /\ Frame(c)

\* The errors LoadFromDisk may return: os.Open fails on a missing file and
\* Decode on a file that holds no document; either may fail otherwise.
LoadErrors == {~disk.exists \/ disk.bad, TRUE}

\* handleLoad that empties the store before it opens the file.
handleLoadClearsFirst(c, toks) ==
    /\ Reads(c, toks, "LOAD")
    /\ ArityOK(toks)
    /\ \E err \in LoadErrors :
          IF err
          THEN /\ Respond(c, LoadFailed)
               /\ Store([data |-> EmptyMap, expirations |-> EmptyMap])
               /\ UNCHANGED <<plain, ttlOf>>
               /\ OwnAfter(c, NoOwn, {})
          ELSE /\ Respond(c, OK)
               /\ Store(Decode(disk))
               /\ OwnAfter(c, NoOwn, Keys)
               /\ PlainAfter({}, Keys)
               /\ TtlAfter([k \in DOMAIN disk.expirations |-> MaxTTL])
    /\ last' = NoLast
    /\ UNCHANGED <<now, disk>>

\* handleLoad: LoadFromDisk replaces both mappings by the decoded ones,
\* unless the file is missing or cannot be read.
handleLoad(c, toks) ==
    /\ Reads(c, toks, "LOAD")
    /\ ArityOK(toks)
    /\ \E err \in LoadErrors :
          IF err
          THEN /\ Respond(c, LoadFailed)
               /\ UNCHANGED <<data, expirations, plain, ttlOf>>
               /\ OwnAfter(c, NoOwn, {})
          ELSE /\ Respond(c, OK)
               /\ Store(Decode(disk))
               /\ OwnAfter(c, NoOwn, Keys)
               /\ PlainAfter({}, Keys)
               /\ TtlAfter([k \in DOMAIN disk.expirations |-> MaxTTL])
    /\ last' = NoLast
    /\ UNCHANGED <<now, disk>>

\* handleDeleteEx up to the end of the read-locked section of its kv.Get.
handleDeleteEx(c, toks) ==
    /\ Reads(c, toks, "DELETEEX")
    /\ ArityOK(toks)
    /\ Len(timers) < MaxTimers
    /\ IF toks[2] \notin DOMAIN data
       THEN /\ Respond(c, KeyNotFound)
            /\ OwnAfter(c, NoOwn, {})
       ELSE /\ Goto(c, "deleteex_expired", toks, [NoLocal EXCEPT !.value = data[toks[2]]])
            /\ OwnAfter(c, [key |-> toks[2], value |-> "",
                            due |-> expired(expirations, now, toks[2])], {})
    /\ last' = NoLast
    /\ UNCHANGED <<data, expirations, now, plain, ttlOf, timers>>

\* handleDeleteEx: the unlocked s.expired(key) of its kv.Get and, for a key
\* that Get returns, the validation of the delay and time.AfterFunc.
\* seen is history: the value Get read.
handleDeleteEx_expired(c) ==
    LET delay == Atoi(tokens[c][3])
    IN  /\ pc[c] = "deleteex_expired"
        /\ IF expired(expirations, now, tokens[c][2])
           THEN /\ Goto(c, "deleteex_delete", tokens[c], NoLocal)
                /\ UNCHANGED <<own, timers>>
           ELSE /\ OwnAfter(c, NoOwn, {})
                /\ IF delay.err \/ delay.n <= 0
                   THEN /\ Respond(c, formatInvalidTTL(tokens[c][3]))
                        /\ UNCHANGED timers
                   ELSE /\ Respond(c, OK)
                        /\ timers' = Append(timers,
                              [key |-> tokens[c][2],
                               due |-> now + delay.n * TicksPerSec,
                               seen |-> local[c].value])
        /\ last' = NoLast
        /\ UNCHANGED <<data, expirations, now, plain, ttlOf>>

\* handleDeleteEx: the write-locked deletion of its kv.Get.
handleDeleteEx_delete(c) ==
    /\ pc[c] = "deleteex_delete"
    /\ data' = Remove(data, tokens[c][2])
    /\ expirations' = Remove(expirations, tokens[c][2])
    /\ Respond(c, KeyNotFound)
    /\ OwnAfter(c, NoOwn, {})
    /\ PlainAfter({}, {})
    /\ TtlAfter(EmptyMap)
    /\ last' = NoLast
    /\ UNCHANGED <<now, timers>>

\* The sequence without its i-th element.
Without(seq, i) == SubSeq(seq, 1, i - 1) \o SubSeq(seq, i + 1, Len(seq))

\* A timer that deletes only a key that still holds the value seen.
TimerFiresIfUnchanged(i) ==
    LET key == timers[i].key
        same == key \in DOMAIN data /\ data[key] = timers[i].seen
        r == IF same THEN Delete(data, expirations, key)
             ELSE [data |-> data, expirations |-> expirations, err |-> TRUE]
    IN  /\ i \in 1..Len(timers)
        /\ now >= timers[i].due
        /\ Store(r)
        /\ timers' = Without(timers, i)
        /\ Called("AfterFunc",
                  <<key, timers[i].seen, IF key \in DOMAIN data THEN data[key] ELSE "">>,
                  IF r.err THEN 0 ELSE 1)
        /\ PlainAfter({}, {})
        /\ TtlAfter(EmptyMap)
        /\ Direct({key})

\* The function given to time.AfterFunc runs, at its time or later:
\* kv.Delete(key), its result dropped.
TimerFires(i) ==
    LET key == timers[i].key
        r == Delete(data, expirations, key)
    IN  /\ i \in 1..Len(timers)
        /\ now >= timers[i].due
        /\ Store(r)
        /\ timers' = Without(timers, i)
        /\ Called("AfterFunc",
                  <<key, timers[i].seen, IF key \in DOMAIN data THEN data[key] ELSE "">>,
                  IF r.err THEN 0 ELSE 1)
        /\ PlainAfter({}, {})
        /\ TtlAfter(EmptyMap)
        /\ Direct({key})

\* handleConnection: ReadString fails (end of stream, deadline, other error):
\* disconnect and return.
ReadError(c) ==
    /\ pc[c] = "idle"
    /\ pc' = [pc EXCEPT ![c] = "closed"]
    /\ metrics' = [metrics EXCEPT !.ActiveClients = @ - 1]
    /\ OwnAfter(c, NoOwn, {})
    /\ last' = NoLast
    /\ UNCHANGED <<data, expirations, now, tokens, local, reply, plain, ttlOf>>

\* handleConnection: conn.Write fails: disconnect and return.
WriteError(c) ==
    /\ pc[c] = "write"
    /\ pc' = [pc EXCEPT ![c] = "closed"]
    /\ reply' = [reply EXCEPT ![c] = NoReply]
    /\ metrics' = [metrics EXCEPT !.ActiveClients = @ - 1]
    /\ OwnAfter(c, NoOwn, {})
    /\ last' = NoLast
    /\ UNCHANGED <<data, expirations, now, tokens, local, plain, ttlOf>>

\* ------------------------------------------------- the counted server
\* One connection, every command of processCommand's switch, the counters
\* of Metrics, the snapshot file, the timers of DELETEEX, the sweep and the
\* clock.  The connection starts a command only while fewer than MaxCmds
\* commands have been counted.

CmdClients == {"c1"}

CmdInputs ==
    {<<"GET", "a">>, <<"MGET", "a", "b">>, <<"KEYEXISTS", "a">>, <<"TYPE", "a">>,
     <<"SET", "a", "x">>, <<"SET", "a", "y">>, <<"MSET", "b", "", "a", "x">>,
     <<"SETEX", "a", "x", "1">>, <<"SETEX", "a", "x", "0">>,
     <<"TTL", "a">>, <<"RENAME", "a", "b">>, <<"STATS">>,
     <<"DELETE", "a">>, <<"DEL", "a", "b">>,
     <<"DELETEEX", "a", "1">>, <<"DELETEEX", "a", "abc">>,
     <<"FLUSH">>, <<"SAVE">>, <<"LOAD">>, <<"KEYS">>, <<"INFO">>, <<"HELP">>,
     <<"PING">>}
    \cup
    {<<"GET">>, <<"MGET">>, <<"KEYEXISTS">>, <<"TYPE", "a", "b">>,
     <<"SET", "a">>, <<"SET", "a", "x", "y">>, <<"MSET", "a", "x", "b">>,
     <<"SETEX", "a", "x">>, <<"TTL">>, <<"RENAME", "a">>, <<"STATS", "a">>,
     <<"DELETE">>, <<"DEL">>, <<"DELETEEX", "a">>, <<"FLUSH", "a">>,
     <<"SAVE", "a">>, <<"LOAD", "a">>, <<"KEYS", "a">>, <<"INFO", "a">>,
     <<"HELP", "a">>, <<"PING", "a">>, <<"SHUTDOWN", "a">>}
    \cup {<<"NOPE">>}

\* metrics.Inc(name), or no call of Inc for the name "".
Counts(name) ==
    metrics' = [metrics EXCEPT !.CommandCounts =
                   IF name = "" THEN @ ELSE Inc(@, name)]

Budget ==
    SumOver(metrics.CommandCounts, DOMAIN metrics.CommandCounts) < MaxCmds

\* The handler returns in this step: its metrics.Inc comes right before.
Returns(c) == pc'[c] = "write"

\* The arity branch of a handler: metrics.Inc("ERROR") and the usage error.
countArityError(c, toks) ==
    /\ ArityError(c, toks)
    /\ Counts("ERROR")

\* handleDelete that counts a DELETE whatever kv.Delete returns.
countDeleteAlways(c, toks) ==
    /\ handleDelete(c, toks)
    /\ Counts("DELETE")

\* handleDelete with its metrics.Inc.
countDelete(c, toks) ==
    /\ handleDelete(c, toks)
    /\ Counts(IF Delete(data, expirations, toks[2]).err THEN "ERROR" ELSE "DELETE")

\* processCommand(tokens) with the metrics.Inc of the branch taken, up to
\* the handler's return or the end of its first store call.  SHUTDOWN with
\* its one token ends the server and is not followed.
processCommand(c, toks) ==
    /\ Budget
    /\ \/ /\ handleGet(c, toks)
          /\ Counts(IF toks[2] \notin DOMAIN data THEN "ERROR" ELSE "")
          /\ UNCHANGED <<disk, timers>>
       \/ /\ handleMGet(c, toks)
          /\ Counts(IF Returns(c) THEN "MGET" ELSE "")
          /\ UNCHANGED <<disk, timers>>
       \/ /\ handleKeyExists(c, toks)
          /\ Counts("KEYEXISTS")
          /\ UNCHANGED <<disk, timers>>
       \/ /\ handleType(c, toks)
          /\ Counts(IF Contains(data, toks[2]) THEN "" ELSE "TYPE")
          /\ UNCHANGED <<disk, timers>>
       \/ /\ handleSet(c, toks)
          /\ Counts("SET")
          /\ UNCHANGED <<disk, timers>>
       \/ /\ handleMSet(c, toks)
          /\ Counts(IF Returns(c) THEN "MSET" ELSE "")
          /\ UNCHANGED <<disk, timers>>
       \/ /\ handleSetEx(c, toks)
          /\ Counts(IF Atoi(toks[4]).err \/ Atoi(toks[4]).n <= 0 THEN "ERROR" ELSE "SETEX")
          /\ UNCHANGED <<disk, timers>>
       \/ /\ handleTTL(c, toks)
          /\ Counts("TTL")
          /\ UNCHANGED <<disk, timers>>
       \/ /\ handleRename(c, toks)
          /\ Counts(IF ~Contains(data, toks[2]) THEN "ERROR" ELSE "")
          /\ UNCHANGED <<disk, timers>>
       \/ /\ handleStats(c, toks)
          /\ Counts("")
          /\ UNCHANGED <<disk, timers>>
       \/ /\ countDelete(c, toks)
          /\ UNCHANGED <<disk, timers>>
       \/ /\ handleDel(c, toks)
          /\ Counts(IF Returns(c) THEN "DEL" ELSE "")
          /\ UNCHANGED <<disk, timers>>
       \/ /\ handleDeleteEx(c, toks)
          /\ Counts(IF toks[2] \notin DOMAIN data THEN "ERROR" ELSE "")
          /\ UNCHANGED disk
       \/ /\ handleFlush(c, toks)
          /\ Counts("FLUSH")
          /\ UNCHANGED <<disk, timers>>
       \/ /\ handleSave(c, toks)
          /\ Counts(IF reply'[c] = OK THEN "SAVE" ELSE "ERROR")
          /\ UNCHANGED timers
       \/ /\ handleLoad(c, toks)
          /\ Counts(IF reply'[c] = OK THEN "LOAD" ELSE "ERROR")
          /\ UNCHANGED timers
       \/ /\ handleKeys(c, toks)
          /\ Counts("")
          /\ UNCHANGED <<disk, timers>>
       \/ /\ handleInfo(c, toks)
          /\ Counts("")
          /\ UNCHANGED <<disk, timers>>
       \/ /\ handleHelp(c, toks)
          /\ Counts("HELP")
          /\ UNCHANGED <<disk, timers>>
       \/ /\ handlePing(c, toks)
          /\ Counts("PING")
          /\ UNCHANGED <<disk, timers>>
       \/ /\ countArityError(c, toks)
          /\ UNCHANGED <<disk, timers>>
       \/ /\ UnknownCommand(c, toks)
          /\ Counts("ERROR")
          /\ UNCHANGED <<disk, timers>>

\* The later store calls of the running handler, with its metrics.Inc.
continueCommand(c) ==
    \/ /\ Get_expired(c)
       /\ Counts(IF Returns(c) THEN "GET" ELSE "")
       /\ UNCHANGED <<disk, timers>>
    \/ /\ Get_delete(c)
       /\ Counts("ERROR")
       /\ UNCHANGED <<disk, timers>>
    \/ /\ \/ handleMGet_next(c)
          \/ handleMGet_expired(c)
          \/ handleMGet_delete(c)
       /\ Counts(IF Returns(c) THEN "MGET" ELSE "")
       /\ UNCHANGED <<disk, timers>>
    \/ /\ handleMSet_next(c)
       /\ Counts(IF Returns(c) THEN "MSET" ELSE "")
       /\ UNCHANGED <<disk, timers>>
    \/ /\ handleRename_rename(c)
       /\ Counts("RENAME")
       /\ UNCHANGED <<disk, timers>>
    \/ /\ handleDel_next(c)
       /\ Counts(IF Returns(c) THEN "DEL" ELSE "")
       /\ UNCHANGED <<disk, timers>>
    \/ /\ handleDeleteEx_expired(c)
       /\ Counts(IF ~Returns(c) THEN ""
                 ELSE IF reply'[c] = OK THEN "DELETEEX" ELSE "ERROR")
       /\ UNCHANGED disk
    \/ /\ handleDeleteEx_delete(c)
       /\ Counts("ERROR")
       /\ UNCHANGED disk
    \/ /\ handleKeys_read(c)
       /\ Counts("KEYS")
       /\ UNCHANGED <<disk, timers>>
    \/ /\ handleInfo_read(c)
       /\ Counts("INFO")
       /\ UNCHANGED <<disk, timers>>

\* The state after StartServer has accepted the connections of CmdClients.
InitCmd ==
    /\ data = EmptyMap
    /\ expirations = EmptyMap
    /\ now = 0
    /\ IdleConns
    /\ last = NoLast
    /\ inbox = [c \in Tasks |-> <<>>]
    /\ script = [c \in Tasks |-> <<>>]
    /\ plain = {}
    /\ ttlOf = EmptyMap
    /\ metrics = [NewMetrics EXCEPT !.ActiveClients = Cardinality(CmdClients)]
    /\ disk = NoFile
    /\ timers = <<>>
    /\ NetInit

\* The connection's input, the registry, the subscriptions and the shutdown
\* are not followed in this specification.
NoInput == UNCHANGED <<inbox, script>> /\ UNCHANGED netVars

NextCmd ==
    \/ \E c \in CmdClients, toks \in CmdInputs : processCommand(c, toks) /\ NoInput
    \/ \E c \in CmdClients : continueCommand(c) /\ NoInput
    \/ \E c \in CmdClients : Write(c) /\ UNCHANGED <<metrics, disk, timers>> /\ NoInput
    \/ \E c \in CmdClients : ReadError(c) /\ UNCHANGED <<disk, timers>> /\ NoInput
    \/ \E c \in CmdClients : WriteError(c) /\ UNCHANGED <<disk, timers>> /\ NoInput
    \/ \E i \in 1..MaxTimers : TimerFires(i) /\ UNCHANGED <<metrics, disk>> /\ NoInput
    \/ sweep /\ UNCHANGED <<metrics, disk, timers>> /\ NoInput
    \/ Tick /\ UNCHANGED <<metrics, disk, timers>> /\ NoInput

SpecCmd == InitCmd /\ [][NextCmd]_vars

\* ------------------------------------------------------- PubSubManager
\* Subscribe and Unsubscribe run under the exclusive lock of the manager and
\* are one step each.  Publish holds the shared lock from its lookup to its
\* return and writes to one subscriber per step: other Publish calls, the
\* handlers and the disconnects run in between, Subscribe and Unsubscribe
\* wait.  No handler of processCommand calls these methods: they are called
\* directly, Subscribe and Unsubscribe for a connection by its handler.

\* m.Subscribtions[channel][conn] = true, the inner map made when missing.
Subscribe(m, channel, conn) ==
    IF channel \notin DOMAIN m
    THEN Put(m, channel, {conn})
    ELSE [m EXCEPT ![channel] = @ \cup {conn}]

\* Unsubscribe that leaves the entry of a channel without subscribers.
UnsubscribeKeepsEmpty(m, channel, conn) ==
    IF channel \in DOMAIN m
    THEN [m EXCEPT ![channel] = @ \ {conn}]
    ELSE m

Unsubscribe(m, channel, conn) ==
    IF channel \in DOMAIN m
    THEN LET connections == m[channel] \ {conn}
         IN  IF connections = {}
             THEN Remove(m, channel)
             ELSE [m EXCEPT ![channel] = connections]
    ELSE m

\* What fmt.Fprintf(conn, format) writes when it is given no operand: a
\* format without "%" is written as it is; in "50%\n" the newline after
\* the "%" is taken for the verb, which has no operand.
Fprintf(format) ==
    IF format = "50%\n" THEN "50%!\n(MISSING)" ELSE format

\* The lock of the manager is free for Lock(): no Publish holds RLock.
NoPublishRuns == \A p \in Publishers : pub[p].pc \in {"idle", "done"}

\* The variables of the store and of the commands.
kvVars == <<data, expirations, now, plain, ttlOf, disk, timers, inbox, script>>
cmdVars == <<pc, tokens, local, reply, own>>

PubSubFrame ==
    /\ last' = NoLast
    /\ UNCHANGED <<conns, sock, wire, srv, pub, metrics, mu, calls>>
    /\ UNCHANGED kvVars
    /\ UNCHANGED cmdVars

callSubscribe(channel, c) ==
    /\ pc[c] = "idle"
    /\ NoPublishRuns
    /\ Subscribtions' = Subscribe(Subscribtions, channel, c)
    /\ joined' = [joined EXCEPT ![channel] = @ \cup {c}]
    /\ PubSubFrame

callUnsubscribe(channel, c) ==
    /\ pc[c] = "idle"
    /\ NoPublishRuns
    /\ Subscribtions' = Unsubscribe(Subscribtions, channel, c)
    /\ joined' = [joined EXCEPT ![channel] = @ \ {c}]
    /\ PubSubFrame

\* The rest of the state during a step of Publish.
PublishFrame ==
    /\ last' = NoLast
    /\ UNCHANGED <<Subscribtions, conns, sock, srv, joined, mu, calls, metrics>>
    /\ UNCHANGED kvVars
    /\ UNCHANGED cmdVars

\* Publish takes the shared lock and looks the channel up; without an entry
\* it returns, 0 being the result of the bare return.
Publish(p, channel, message) ==
    /\ pub[p].pc = "idle"
    /\ pub' = [pub EXCEPT ![p] =
                 IF channel \notin DOMAIN Subscribtions
                 THEN [NoPub EXCEPT !.pc = "done", !.channel = channel,
                                    !.message = message]
                 ELSE [NoPub EXCEPT !.pc = "loop", !.channel = channel,
                                    !.message = message,
                                    !.rest = Subscribtions[channel]]]
    /\ UNCHANGED wire
    /\ PublishFrame

\* One round of the loop of Publish: fmt.Fprintf to a subscriber, which
\* fails on a closed connection and may fail on an open one, and count++
\* under the test the line states, err differing from the zero value.
\* failed is history: the subscribers whose write returned an error.
Publish_write(p) ==
    /\ pub[p].pc = "loop"
    /\ \E conn \in pub[p].rest :
       \E err \in {sock[conn] # "open", TRUE} :
          /\ ~err => Len(wire[conn]) < MaxWire
          /\ wire' = IF err THEN wire
                     ELSE [wire EXCEPT ![conn] =
                              Append(@, Fprintf(pub[p].message \o "\n"))]
          /\ pub' = [pub EXCEPT ![p].rest = @ \ {conn},
                                ![p].count = IF err THEN @ + 1 ELSE @,
                                ![p].failed = IF err THEN @ \cup {conn} ELSE @]
    /\ PublishFrame

\* The loop is over: Publish returns count and releases the lock.
Publish_return(p) ==
    /\ pub[p].pc = "loop"
    /\ pub[p].rest = {}
    /\ pub' = [pub EXCEPT ![p].pc = "done"]
    /\ UNCHANGED wire
    /\ PublishFrame

\* The caller has the result of Publish and may call again.
Publish_done(p) ==
    /\ pub[p].pc = "done"
    /\ pub' = [pub EXCEPT ![p] = NoPub]
    /\ UNCHANGED wire
    /\ PublishFrame

\* ------------------------------------------------- connections, shutdown
\* A connection is "none" before it is accepted, then "open", then "closed"
\* once conn.Close() was called on it.  Its handler is at "start" when the
\* goroutine was made, at "add" after IncActiveClients, at "idle" in front
\* of ReadString, at "write" in front of conn.Write, at "remove" and "dec"
\* inside disconnect, and at "closed" when it has returned.  The process
\* ends when StartServer returns; the steps the goroutines take until then
\* are the ones followed here.

\* The rest of the state during a step of the connection's life.
ConnFrame ==
    /\ last' = NoLast
    /\ UNCHANGED <<Subscribtions, pub, joined, mu, calls>>
    /\ UNCHANGED kvVars
    /\ UNCHANGED <<tokens, local, reply, own>>

\* The main loop: ln.Accept() returns a connection, go handleConnection.
Accept(c) ==
    /\ srv.ln = "open"
    /\ sock[c] = "none"
    /\ sock' = [sock EXCEPT ![c] = "open"]
    /\ pc' = [pc EXCEPT ![c] = "start"]
    /\ UNCHANGED <<conns, wire, srv, metrics>>
    /\ ConnFrame

IncActiveClients(m) == [m EXCEPT !.ActiveClients = @ + 1]
DecActiveClients(m) == [m EXCEPT !.ActiveClients = @ - 1]

\* handleConnection: metrics.IncActiveClients().
handleConnection_start(c) ==
    /\ pc[c] = "start"
    /\ pc' = [pc EXCEPT ![c] = "add"]
    /\ metrics' = IncActiveClients(metrics)
    /\ UNCHANGED <<conns, sock, wire, srv>>
    /\ ConnFrame

\* The registry's lock is free unless CloseAll holds it.
RegistryFree == srv.hook # "closeall"

\* handleConnection: connections.Add(conn).
handleConnection_add(c) ==
    /\ pc[c] = "add"
    /\ RegistryFree
    /\ pc' = [pc EXCEPT ![c] = "idle"]
    /\ conns' = conns \cup {c}
    /\ UNCHANGED <<sock, wire, srv, metrics>>
    /\ ConnFrame

\* ReadString returns an error (end of input, timeout, closed connection)
\* and disconnect starts: conn.Close().
handleConnection_readError(c) ==
    /\ pc[c] = "idle"
    /\ pc' = [pc EXCEPT ![c] = "remove"]
    /\ sock' = [sock EXCEPT ![c] = "closed"]
    /\ UNCHANGED <<conns, wire, srv, metrics>>
    /\ ConnFrame

\* conn.Write returns an error and disconnect starts: conn.Close().
handleConnection_writeError(c) ==
    /\ pc[c] = "write"
    /\ pc' = [pc EXCEPT ![c] = "remove"]
    /\ sock' = [sock EXCEPT ![c] = "closed"]
    /\ reply' = [reply EXCEPT ![c] = NoReply]
    /\ last' = NoLast
    /\ UNCHANGED <<conns, wire, srv, metrics, tokens, local, own>>
    /\ UNCHANGED <<Subscribtions, pub, joined, mu, calls>>
    /\ UNCHANGED kvVars

\* disconnect: connections.Remove(conn).
disconnect_remove(c) ==
    /\ pc[c] = "remove"
    /\ RegistryFree
    /\ pc' = [pc EXCEPT ![c] = "dec"]
    /\ conns' = conns \ {c}
    /\ UNCHANGED <<sock, wire, srv, metrics>>
    /\ ConnFrame

\* disconnect without its last line.
disconnect_decNever(c) ==
    /\ pc[c] = "dec"
    /\ pc' = [pc EXCEPT ![c] = "closed"]
    /\ UNCHANGED <<conns, sock, wire, srv, metrics>>
    /\ ConnFrame

\* disconnect: metrics.DecActiveClients(); the handler returns.
disconnect_dec(c) ==
    /\ pc[c] = "dec"
    /\ pc' = [pc EXCEPT ![c] = "closed"]
    /\ metrics' = DecActiveClients(metrics)
    /\ UNCHANGED <<conns, sock, wire, srv>>
    /\ ConnFrame

\* The bytes of one conn.Write of a handler: the response and its END line.
Framed(response) == response \o "\nEND\n"

\* conn.Write succeeds: the bytes are on the connection.
Sent(c) ==
    /\ sock[c] = "open"
    /\ Len(wire[c]) < MaxWire
    /\ wire' = [wire EXCEPT ![c] = Append(@, Framed(reply[c]))]

ShuttingDown == "Server shutting down..."

\* handleShutDown: go triggerSIGINT(), whose signal reaches sigCh.
handleShutDown(c, toks) ==
    /\ Reads(c, toks, "SHUTDOWN")
    /\ ArityOK(toks)
    /\ Respond(c, ShuttingDown)
    /\ srv' = [srv EXCEPT !.sigCh = 1]
    /\ Frame(c)

\* SIGINT or SIGTERM from outside the process.
Interrupt ==
    /\ srv.sigCh = 0
    /\ srv' = [srv EXCEPT !.sigCh = 1]
    /\ UNCHANGED <<conns, sock, wire, metrics, pc>>
    /\ ConnFrame

\* The rest of the state during a step of the hook or of the sweeper.
HookFrame ==
    /\ UNCHANGED <<data, expirations, now, tokens, local, reply, inbox,
                   script, own, last, plain, ttlOf, timers>>
    /\ UNCHANGED <<Subscribtions, pub, joined, mu, calls, conns, wire, metrics, pc>>

\* The hook receives from sigCh; CloseAll takes the registry's lock.
setupShutdownHook_wake ==
    /\ srv.hook = "waiting"
    /\ srv.sigCh = 1
    /\ srv' = [srv EXCEPT !.sigCh = 0, !.hook = "closeall", !.rest = conns]
    /\ UNCHANGED <<sock, disk>>
    /\ HookFrame

\* CloseAll: conn.Close() on one registered connection.
CloseAll_close(c) ==
    /\ srv.hook = "closeall"
    /\ c \in srv.rest
    /\ sock' = [sock EXCEPT ![c] = "closed"]
    /\ srv' = [srv EXCEPT !.rest = @ \ {c}]
    /\ UNCHANGED disk
    /\ HookFrame

\* CloseAll returns; kv.SaveToDisk(FileName), whose error is logged.
setupShutdownHook_save ==
    /\ srv.hook = "closeall"
    /\ srv.rest = {}
    /\ srv' = [srv EXCEPT !.hook = "saved"]
    /\ \E err \in SaveErrors : disk' = SaveToDisk(err)
    /\ UNCHANGED sock
    /\ HookFrame

\* close(done).
setupShutdownHook_done ==
    /\ srv.hook = "saved"
    /\ srv' = [srv EXCEPT !.hook = "stopping", !.done = "closed"]
    /\ UNCHANGED <<sock, disk>>
    /\ HookFrame

\* ln.Close(): Accept fails from now on.
setupShutdownHook_close ==
    /\ srv.hook = "stopping"
    /\ srv' = [srv EXCEPT !.hook = "finished", !.ln = "closed"]
    /\ UNCHANGED <<sock, disk>>
    /\ HookFrame

\* The goroutine of ScheduleCleanup receives from done and returns.
ScheduleCleanup_stop ==
    /\ srv.sweeper = "running"
    /\ srv.done = "closed"
    /\ srv' = [srv EXCEPT !.sweeper = "stopped"]
    /\ UNCHANGED <<sock, disk>>
    /\ HookFrame

\* ------------------------------------------------ the server with pub/sub
\* Two accepted and registered connections, the calls of the PubSubManager
\* and the ends of the connections.  The client of Pingers sends PING.

Pingers == {"c1"}

InitPubSub ==
    /\ data = EmptyMap
    /\ expirations = EmptyMap
    /\ now = 0
    /\ pc = [c \in Tasks |-> IF c \in Clients THEN "idle" ELSE "none"]
    /\ tokens = [c \in Tasks |-> NoTokens]
    /\ local = [c \in Tasks |-> NoLocal]
    /\ reply = [c \in Tasks |-> NoReply]
    /\ own = [c \in Tasks |-> NoOwn]
    /\ last = NoLast
    /\ inbox = [c \in Tasks |-> <<>>]
    /\ script = [c \in Tasks |-> <<>>]
    /\ plain = {}
    /\ ttlOf = EmptyMap
    /\ metrics = [NewMetrics EXCEPT !.ActiveClients = Cardinality(Clients)]
    /\ disk = NoFile
    /\ timers = <<>>
    /\ Subscribtions = EmptyMap
    /\ conns = Clients
    /\ sock = [c \in Tasks |-> IF c \in Clients THEN "open" ELSE "none"]
    /\ wire = [c \in Tasks |-> <<>>]
    /\ srv = Listening
    /\ pub = [p \in Publishers |-> NoPub]
    /\ joined = [ch \in Channels |-> {}]
    /\ mu = [x \in Components |-> Unlocked]
    /\ calls = NoCalls

\* The rest of the state during a command of a handler.
HandlerFrame ==
    /\ UNCHANGED <<inbox, script, disk, timers>>
    /\ UNCHANGED <<Subscribtions, conns, sock, pub, joined, mu, calls>>

NextPubSub ==
    \/ \E c \in Clients, ch \in Channels : callSubscribe(ch, c)
    \/ \E c \in Clients, ch \in Channels : callUnsubscribe(ch, c)
    \/ \E p \in Publishers, ch \in Channels, m \in Msgs : Publish(p, ch, m)
    \/ \E p \in Publishers : Publish_write(p)
    \/ \E p \in Publishers : Publish_return(p)
    \/ \E p \in Publishers : Publish_done(p)
    \/ \E c \in Pingers :
          /\ handlePing(c, <<"PING">>)
          /\ Counts("PING")
          /\ UNCHANGED <<wire, srv>>
          /\ HandlerFrame
    \/ \E c \in Clients :
          /\ Write(c)
          /\ Sent(c)
          /\ UNCHANGED <<metrics, srv>>
          /\ HandlerFrame
    \/ \E c \in Clients : handleConnection_readError(c)
    \/ \E c \in Clients : handleConnection_writeError(c)
    \/ \E c \in Clients : disconnect_remove(c)
    \/ \E c \in Clients : disconnect_dec(c)

SpecPubSub == InitPubSub /\ [][NextPubSub]_vars

\* ------------------------------------------- the server with its shutdown
\* The accept loop, the handlers of the accepted connections with the
\* commands of ConnInputs, their ends, and the shutdown hook.

ConnInputs == {<<"SET", "a", "x">>, <<"SHUTDOWN">>}

InitConn ==
    /\ data = EmptyMap
    /\ expirations = EmptyMap
    /\ now = 0
    /\ pc = [c \in Tasks |-> "none"]
    /\ tokens = [c \in Tasks |-> NoTokens]
    /\ local = [c \in Tasks |-> NoLocal]
    /\ reply = [c \in Tasks |-> NoReply]
    /\ own = [c \in Tasks |-> NoOwn]
    /\ last = NoLast
    /\ inbox = [c \in Tasks |-> <<>>]
    /\ script = [c \in Tasks |-> <<>>]
    /\ plain = {}
    /\ ttlOf = EmptyMap
    /\ metrics = NewMetrics
    /\ disk = NoFile
    /\ timers = <<>>
    /\ NetInit

\* A handler reads a line, which may have been buffered before its
\* connection was closed, and processCommand answers it.
processLine(c, toks) ==
    /\ \/ handleSet(c, toks) /\ Counts("SET") /\ UNCHANGED srv
       \/ handleShutDown(c, toks) /\ UNCHANGED metrics
    /\ UNCHANGED wire
    /\ HandlerFrame

NextConn ==
    \/ \E c \in Clients : Accept(c)
    \/ \E c \in Clients : handleConnection_start(c)
    \/ \E c \in Clients : handleConnection_add(c)
    \/ \E c \in Clients, toks \in ConnInputs : processLine(c, toks)
    \/ \E c \in Clients :
          /\ Write(c)
          /\ Sent(c)
          /\ UNCHANGED <<metrics, srv>>
          /\ HandlerFrame
    \/ \E c \in Clients : handleConnection_readError(c)
    \/ \E c \in Clients : handleConnection_writeError(c)
    \/ \E c \in Clients : disconnect_remove(c)
    \/ \E c \in Clients : disconnect_dec(c)
    \/ Interrupt
    \/ setupShutdownHook_wake
    \/ \E c \in Clients : CloseAll_close(c)
    \/ setupShutdownHook_save
    \/ setupShutdownHook_done
    \/ setupShutdownHook_close
    \/ ScheduleCleanup_stop

SpecConn == InitConn /\ [][NextConn]_vars

\* ------------------------------------------ the server with its snapshot
\* StartServer from its first line, with the file it may find, then one
\* connection whose commands write, save and load.

\* The file before the server starts: none, a snapshot, no document.
StartFiles ==
    {NoFile,
     [NoFile EXCEPT !.exists = TRUE, !.data = Put(EmptyMap, "a", "x"),
                    !.saved = [data |-> Put(EmptyMap, "a", "x"),
                               expirations |-> EmptyMap]],
     [NoFile EXCEPT !.exists = TRUE, !.bad = TRUE]}

DiskInputs ==
    {<<"SET", "a", "x">>, <<"SET", "a", InvalidUTF8>>, <<"SETEX", "b", "y", "1">>,
     <<"DELETE", "a">>, <<"FLUSH">>, <<"SAVE">>, <<"LOAD">>, <<"PING">>}

InitDisk ==
    /\ data = EmptyMap
    /\ expirations = EmptyMap
    /\ now = 0
    /\ pc = [c \in Tasks |-> "none"]
    /\ tokens = [c \in Tasks |-> NoTokens]
    /\ local = [c \in Tasks |-> NoLocal]
    /\ reply = [c \in Tasks |-> NoReply]
    /\ own = [c \in Tasks |-> NoOwn]
    /\ last = NoLast
    /\ inbox = [c \in Tasks |-> <<>>]
    /\ script = [c \in Tasks |-> <<>>]
    /\ plain = {}
    /\ ttlOf = EmptyMap
    /\ metrics = NewMetrics
    /\ disk \in StartFiles
    /\ timers = <<>>
    /\ Subscribtions = EmptyMap
    /\ conns = {}
    /\ sock = [c \in Tasks |-> "none"]
    /\ wire = [c \in Tasks |-> <<>>]
    /\ srv = [Listening EXCEPT !.ln = "none"]
    /\ pub = [p \in Publishers |-> NoPub]
    /\ joined = [ch \in Channels |-> {}]
    /\ mu = [x \in Components |-> Unlocked]
    /\ calls = NoCalls

\* StartServer up to its main loop: kv.LoadFromDisk(FileName), whose error
\* is logged, ScheduleCleanup, net.Listen and setupShutdownHook.
StartServer ==
    /\ srv.ln = "none"
    /\ \E err \in LoadErrors :
          IF err
          THEN UNCHANGED <<data, expirations, plain, ttlOf>>
          ELSE /\ Store(Decode(disk))
               /\ PlainAfter({}, Keys)
               /\ TtlAfter([k \in DOMAIN disk.expirations |-> MaxTTL])
    /\ srv' = Listening
    /\ UNCHANGED <<now, pc, tokens, local, reply, own, last, inbox, script,
                   metrics, disk, timers>>
    /\ UNCHANGED <<Subscribtions, conns, sock, wire, pub, joined, mu, calls>>

NextDisk ==
    \/ StartServer
    \/ \E c \in CmdClients : Accept(c)
    \/ \E c \in CmdClients : handleConnection_start(c)
    \/ \E c \in CmdClients : handleConnection_add(c)
    \/ \E c \in CmdClients, toks \in DiskInputs : processCommand(c, toks) /\ NoInput
    \/ \E c \in CmdClients : Write(c) /\ UNCHANGED <<metrics, disk, timers>> /\ NoInput

SpecDisk == InitDisk /\ [][NextDisk]_vars

\* ------------------------------------------------- Metrics, step by step
\* The tasks of MetricTasks call Inc, Snapshot, IncActiveClients and
\* DecActiveClients side by side.  Inc reads the counter and writes it in
\* two steps and Snapshot copies one counter per step, all of it between
\* Lock and Unlock of m.mu.

MetricTasks == {"c1", "c2", "c3"}
IncNames == {"FLUSH", "flush", "ERROR"}
\* The calls of Inc that are made.
MaxIncs == 3

\* m.mu.Lock() and m.mu.RLock() return.
CanLock(x) == mu[x].w = "" /\ mu[x].r = {}
CanRLock(x) == mu[x].w = ""

\* The rest of the state during a step of a call of Metrics.
MetricsFrame ==
    /\ UNCHANGED <<data, expirations, now, tokens, reply, inbox, script, own,
                   last, plain, ttlOf, disk, timers>>
    /\ UNCHANGED <<Subscribtions, conns, sock, wire, srv, pub, joined>>

\* Inc that goes on without the lock.
Inc_lockNever(t, command) ==
    /\ pc[t] = "idle"
    /\ SumOver(calls.inc, DOMAIN calls.inc)
          + Cardinality({x \in MetricTasks : pc[x] = "inc"}) < MaxIncs
    /\ pc' = [pc EXCEPT ![t] = "inc"]
    /\ local' = [local EXCEPT ![t] =
                   [NoLocal EXCEPT !.value = ToUpper(command),
                                   !.count = Get(metrics.CommandCounts,
                                                 ToUpper(command))]]
    /\ UNCHANGED <<metrics, calls, mu>>
    /\ MetricsFrame

\* Inc: m.mu.Lock(), key := strings.ToUpper(command), the lookup of key.
Inc_lock(t, command) ==
    /\ pc[t] = "idle"
    /\ SumOver(calls.inc, DOMAIN calls.inc)
          + Cardinality({x \in MetricTasks : pc[x] = "inc"}) < MaxIncs
    /\ CanLock("metrics")
    /\ mu' = [mu EXCEPT !["metrics"].w = t]
    /\ pc' = [pc EXCEPT ![t] = "inc"]
    /\ local' = [local EXCEPT ![t] =
                   [NoLocal EXCEPT !.value = ToUpper(command),
                                   !.count = Get(metrics.CommandCounts,
                                                 ToUpper(command))]]
    /\ UNCHANGED <<metrics, calls>>
    /\ MetricsFrame

\* Inc: the counter is written, 1 for a new name, and the deferred Unlock.
Inc_write(t) ==
    /\ pc[t] = "inc"
    /\ metrics' = [metrics EXCEPT !.CommandCounts =
                      Put(@, local[t].value, local[t].count + 1)]
    /\ mu' = [mu EXCEPT !["metrics"].w = IF @ = t THEN "" ELSE @]
    /\ calls' = [calls EXCEPT !.inc = Inc(@, local[t].value)]
    /\ pc' = [pc EXCEPT ![t] = "idle"]
    /\ local' = [local EXCEPT ![t] = NoLocal]
    /\ MetricsFrame

\* IncActiveClients and DecActiveClients, each between Lock and Unlock.
callIncActiveClients(t) ==
    /\ pc[t] = "idle"
    /\ CanLock("metrics")
    /\ metrics.ActiveClients < Cardinality(MetricTasks)
    /\ metrics' = IncActiveClients(metrics)
    /\ UNCHANGED <<pc, local, mu, calls>>
    /\ MetricsFrame

callDecActiveClients(t) ==
    /\ pc[t] = "idle"
    /\ CanLock("metrics")
    /\ metrics.ActiveClients > 0
    /\ metrics' = DecActiveClients(metrics)
    /\ UNCHANGED <<pc, local, mu, calls>>
    /\ MetricsFrame

\* Snapshot: m.mu.RLock() and the empty countsCopy.
Snapshot_rlock(t) ==
    /\ pc[t] = "idle"
    /\ CanRLock("metrics")
    /\ mu' = [mu EXCEPT !["metrics"].r = @ \cup {t}]
    /\ calls' = [calls EXCEPT !.seen = metrics]
    /\ pc' = [pc EXCEPT ![t] = "snapshot"]
    /\ local' = [local EXCEPT ![t] = [NoLocal EXCEPT !.out = EmptyMap]]
    /\ UNCHANGED metrics
    /\ MetricsFrame

\* Snapshot: one round of the range over m.CommandCounts.
Snapshot_copy(t) ==
    /\ pc[t] = "snapshot"
    /\ \E k \in DOMAIN metrics.CommandCounts \ DOMAIN local[t].out :
          local' = [local EXCEPT ![t].out = Put(@, k, metrics.CommandCounts[k])]
    /\ UNCHANGED <<pc, metrics, mu, calls>>
    /\ MetricsFrame

\* Snapshot: the range is over, m.ActiveClients is read, RUnlock, return.
Snapshot_return(t) ==
    /\ pc[t] = "snapshot"
    /\ DOMAIN metrics.CommandCounts \subseteq DOMAIN local[t].out
    /\ local' = [local EXCEPT ![t].count = metrics.ActiveClients]
    /\ mu' = [mu EXCEPT !["metrics"].r = @ \ {t}]
    /\ pc' = [pc EXCEPT ![t] = "snapped"]
    /\ UNCHANGED <<metrics, calls>>
    /\ MetricsFrame

\* The caller is done with the copy.
Snapshot_done(t) ==
    /\ pc[t] = "snapped"
    /\ pc' = [pc EXCEPT ![t] = "idle"]
    /\ local' = [local EXCEPT ![t] = NoLocal]
    /\ UNCHANGED <<metrics, mu, calls>>
    /\ MetricsFrame

NextMetrics ==
    \/ \E t \in MetricTasks \ {"c3"}, command \in IncNames : Inc_lock(t, command)
    \/ \E t \in MetricTasks : Inc_write(t)
    \/ \E t \in MetricTasks : callIncActiveClients(t)
    \/ \E t \in MetricTasks : callDecActiveClients(t)
    \/ \E t \in {"c3"} : Snapshot_rlock(t)
    \/ \E t \in MetricTasks : Snapshot_copy(t)
    \/ \E t \in MetricTasks : Snapshot_return(t)
    \/ \E t \in MetricTasks : Snapshot_done(t)

SpecMetrics == Init /\ [][NextMetrics]_vars

\* --------------------------------------------- the lines of a connection
\* Each connection has sent the lines of its script before its handler
\* reads the first one; the handler reads a line, runs the command and
\* writes the response, one line after the other.

OrderLines ==
    {<<"SET", "a", "x">>, <<"SET", "a", "y">>, <<"GET", "a">>, <<"DELETE", "a">>}
OrderScripts == {<<l, m>> : l \in OrderLines, m \in OrderLines}

InitOrder ==
    /\ data = EmptyMap
    /\ expirations = EmptyMap
    /\ now = 0
    /\ pc = [c \in Tasks |-> IF c \in Clients THEN "idle" ELSE "none"]
    /\ tokens = [c \in Tasks |-> NoTokens]
    /\ local = [c \in Tasks |-> NoLocal]
    /\ reply = [c \in Tasks |-> NoReply]
    /\ own = [c \in Tasks |-> NoOwn]
    /\ last = NoLast
    /\ inbox \in {f \in [Tasks -> OrderScripts \cup {<<>>}] :
                     f["c1"] # <<>> /\ f["c3"] = <<>>}
    /\ script = inbox
    /\ plain = {}
    /\ ttlOf = EmptyMap
    /\ metrics = [NewMetrics EXCEPT !.ActiveClients = Cardinality(Clients)]
    /\ disk = NoFile
    /\ timers = <<>>
    /\ Subscribtions = EmptyMap
    /\ conns = Clients
    /\ sock = [c \in Tasks |-> IF c \in Clients THEN "open" ELSE "none"]
    /\ wire = [c \in Tasks |-> <<>>]
    /\ srv = Listening
    /\ pub = [p \in Publishers |-> NoPub]
    /\ joined = [ch \in Channels |-> {}]
    /\ mu = [x \in Components |-> Unlocked]
    /\ calls = NoCalls

\* reader.ReadString that returns the line sent last.
ReadStringLast(c) == inbox[c][Len(inbox[c])]

\* reader.ReadString('\n'): the first of the lines not yet read.
ReadString(c) == Head(inbox[c])

\* The rest of the state during a step of a handler of this specification.
OrderFrame ==
    /\ UNCHANGED <<script, disk, timers, srv>>
    /\ UNCHANGED <<Subscribtions, conns, sock, pub, joined, mu, calls>>

\* The handler reads its next line and processCommand dispatches it.
handleConnection_read(c) ==
    /\ inbox[c] # <<>>
    /\ LET toks == ReadString(c)
       IN  \/ handleSet(c, toks) /\ Counts("SET")
           \/ /\ handleGet(c, toks)
              /\ Counts(IF toks[2] \notin DOMAIN data THEN "ERROR" ELSE "")
           \/ countDelete(c, toks)
    /\ inbox' = [inbox EXCEPT ![c] = Tail(@)]
    /\ UNCHANGED wire
    /\ OrderFrame

NextOrder ==
    \/ \E c \in Clients : handleConnection_read(c)
    \/ \E c \in Clients :
          /\ Get_expired(c)
          /\ Counts(IF Returns(c) THEN "GET" ELSE "")
          /\ UNCHANGED <<inbox, wire>>
          /\ OrderFrame
    \/ \E c \in Clients :
          /\ Write(c)
          /\ Sent(c)
          /\ UNCHANGED <<inbox, metrics>>
          /\ OrderFrame

SpecOrder == InitOrder /\ [][NextOrder]_vars

\* ------------------------------------------------ the locks, call by call
\*
\* What a call does to the mutexes, the guarded fields and the client
\* connections, in program order.  An event is <<"Lock", x>>, <<"Unlock", x>>,
\* <<"RLock", x>>, <<"RUnlock", x>> for the mutex of component x, <<"read", f>>
\* and <<"write", f>> for an access to field f, and <<"io", "conn">> for a
\* call on a client connection (fmt.Fprintf, conn.Write, conn.Close).

\* The mutex each field is guarded by.
Guard ==
    [data |-> "store", expirations |-> "store",
     CommandCounts |-> "metrics", ActiveClients |-> "metrics",
     Subscribtions |-> "pubsub", conns |-> "registry"]

\* cleanUp: no key, a key that has not expired, a key that has.
cleanUp_locks ==
    { <<<<"Lock", "store">>, <<"read", "data">>, <<"Unlock", "store">>>>,
      <<<<"Lock", "store">>, <<"read", "data">>, <<"read", "expirations">>,
        <<"Unlock", "store">>>>,
      <<<<"Lock", "store">>, <<"read", "data">>, <<"read", "expirations">>,
        <<"write", "data">>, <<"write", "expirations">>,
        <<"Unlock", "store">>>> }

\* Keys: cleanUp(), then the keys are collected under RLock.
Keys_locks ==
    { p \o <<<<"RLock", "store">>, <<"read", "data">>, <<"RUnlock", "store">>>>
        : p \in cleanUp_locks }

\* The methods of KVStore that the commands call.  Get: the key is absent;
\* it is there and expired(key) says no; it is there and expired(key) says
\* yes.  expired(key) is called after RUnlock and before Lock.
KVStore_locks(name) ==
    CASE name = "Set" ->
           { <<<<"Lock", "store">>, <<"write", "data">>,
               <<"read", "expirations">>, <<"Unlock", "store">>>>,
             <<<<"Lock", "store">>, <<"write", "data">>,
               <<"read", "expirations">>, <<"write", "expirations">>,
               <<"Unlock", "store">>>> }
      [] name = "SetEx" ->
           { <<<<"Lock", "store">>, <<"write", "data">>,
               <<"write", "expirations">>, <<"Unlock", "store">>>> }
      [] name = "Get" ->
           { <<<<"RLock", "store">>, <<"read", "data">>,
               <<"RUnlock", "store">>>>,
             <<<<"RLock", "store">>, <<"read", "data">>,
               <<"RUnlock", "store">>, <<"read", "expirations">>>>,
             <<<<"RLock", "store">>, <<"read", "data">>,
               <<"RUnlock", "store">>, <<"read", "expirations">>,
               <<"Lock", "store">>, <<"write", "data">>,
               <<"write", "expirations">>, <<"Unlock", "store">>>> }
      [] name = "cleanUp" -> cleanUp_locks
      [] name = "Keys" -> Keys_locks
      [] OTHER -> {}

\* The methods of Metrics.
Metrics_locks(name) ==
    CASE name = "Inc" ->
           { <<<<"Lock", "metrics">>, <<"read", "CommandCounts">>,
               <<"write", "CommandCounts">>, <<"Unlock", "metrics">>>> }
      [] name = "TotalCommands" ->
           { <<<<"RLock", "metrics">>, <<"read", "CommandCounts">>,
               <<"RUnlock", "metrics">>>> }
      [] name = "DecActiveClients" ->
           { <<<<"Lock", "metrics">>, <<"write", "ActiveClients">>,
               <<"Unlock", "metrics">>>> }
      [] name = "Snapshot" ->
           { <<<<"RLock", "metrics">>, <<"read", "CommandCounts">>,
               <<"read", "ActiveClients">>, <<"RUnlock", "metrics">>>> }
      [] OTHER -> {}

\* handleInfo that keeps metrics.mu until it has all its numbers.
handleInfo_locksAround ==
    { <<<<"RLock", "metrics">>, <<"read", "ActiveClients">>>> \o k
        \o <<<<"RUnlock", "metrics">>>> \o t \o i
        : t \in Metrics_locks("TotalCommands"), k \in Keys_locks,
          i \in Metrics_locks("Inc") }

\* handleInfo: ActiveClients under metrics.mu.RLock, then TotalCommands(),
\* kv.Keys() and metrics.Inc("INFO"), one after the other.
handleInfo_locks ==
    { <<<<"RLock", "metrics">>, <<"read", "ActiveClients">>,
        <<"RUnlock", "metrics">>>> \o t \o k \o i
        : t \in Metrics_locks("TotalCommands"), k \in Keys_locks,
          i \in Metrics_locks("Inc") }

\* The methods of PubSubManager.  Publish: the channel has no subscriber; it
\* has one, and the message is written to it before the deferred RUnlock.
PubSubManager_locks(name) ==
    CASE name = "Subscribe" ->
           { <<<<"Lock", "pubsub">>, <<"read", "Subscribtions">>,
               <<"write", "Subscribtions">>, <<"Unlock", "pubsub">>>> }
      [] name = "Publish" ->
           { <<<<"RLock", "pubsub">>, <<"read", "Subscribtions">>,
               <<"RUnlock", "pubsub">>>>,
             <<<<"RLock", "pubsub">>, <<"read", "Subscribtions">>,
               <<"io", "conn">>, <<"RUnlock", "pubsub">>>> }
      [] OTHER -> {}

\* The methods of Connections.  CloseAll: no connection is registered; one
\* is, and it is closed before the deferred Unlock.
Connections_locks(name) ==
    CASE name = "Add" ->
           { <<<<"Lock", "registry">>, <<"write", "conns">>,
               <<"Unlock", "registry">>>> }
      [] name = "Remove" ->
           { <<<<"Lock", "registry">>, <<"write", "conns">>,
               <<"Unlock", "registry">>>> }
      [] name = "CloseAll" ->
           { <<<<"Lock", "registry">>, <<"read", "conns">>,
               <<"Unlock", "registry">>>>,
             <<<<"Lock", "registry">>, <<"read", "conns">>, <<"io", "conn">>,
               <<"Unlock", "registry">>>> }
      [] OTHER -> {}

\* disconnect: conn.Close(), connections.Remove(conn), DecActiveClients().
disconnect_locks ==
    { <<<<"io", "conn">>>> \o r \o d
        : r \in Connections_locks("Remove"),
          d \in Metrics_locks("DecActiveClients") }

\* The calls that are made, and what each does.
LockCalls ==
    {"Set", "SetEx", "Get", "cleanUp", "Keys", "Inc", "Snapshot", "handleInfo",
     "Publish", "Subscribe", "Add", "CloseAll", "disconnect"}

Paths(name) ==
    CASE name = "handleInfo" -> handleInfo_locks
      [] name = "disconnect" -> disconnect_locks
      [] name \in {"Publish", "Subscribe"} -> PubSubManager_locks(name)
      [] name \in {"Add", "CloseAll"} -> Connections_locks(name)
      [] name \in {"Inc", "Snapshot"} -> Metrics_locks(name)
      [] OTHER -> KVStore_locks(name)

\* The goroutines that make them.
LockTasks == {"c1", "c2"}

\* The rest of the state during a step of a call.
LockFrame ==
    /\ UNCHANGED <<data, expirations, now, tokens, reply, inbox, script, own,
                   last, plain, ttlOf, metrics, disk, timers>>
    /\ UNCHANGED <<Subscribtions, conns, sock, wire, srv, pub, joined, calls>>

\* The event the call of task t is at.
Event(t) == local[t].out[local[t].i]
Running(t) == pc[t] = "run" /\ local[t].i <= Len(local[t].out)
At(t, op) == Running(t) /\ Event(t)[1] = op

\* The mutexes task t holds.
Held(t) == {x \in Components : mu[x].w = t \/ t \in mu[x].r}

\* A goroutine makes a call.
Call(t, name) ==
    /\ pc[t] = "idle"
    /\ \E p \in Paths(name) :
         local' = [local EXCEPT ![t] =
                     [NoLocal EXCEPT !.value = name, !.i = 1, !.out = p]]
    /\ pc' = [pc EXCEPT ![t] = "run"]
    /\ UNCHANGED mu
    /\ LockFrame

\* The next event of the call: Lock and RLock wait until the mutex lets
\* them in; everything else goes ahead.
Step(t) ==
    /\ Running(t)
    /\ LET op == Event(t)[1]
           x == Event(t)[2]
       IN CASE op = "Lock" ->
                 CanLock(x) /\ mu' = [mu EXCEPT ![x].w = t]
            [] op = "RLock" ->
                 CanRLock(x) /\ mu' = [mu EXCEPT ![x].r = @ \cup {t}]
            [] op = "Unlock" -> mu' = [mu EXCEPT ![x].w = ""]
            [] op = "RUnlock" -> mu' = [mu EXCEPT ![x].r = @ \ {t}]
            [] OTHER -> UNCHANGED mu
    /\ local' = [local EXCEPT ![t].i = @ + 1]
    /\ UNCHANGED pc
    /\ LockFrame

\* The call returns.
Return(t) ==
    /\ pc[t] = "run"
    /\ local[t].i > Len(local[t].out)
    /\ pc' = [pc EXCEPT ![t] = "idle"]
    /\ local' = [local EXCEPT ![t] = NoLocal]
    /\ UNCHANGED mu
    /\ LockFrame

NextLocks ==
    \/ \E t \in LockTasks, name \in LockCalls : Call(t, name)
    \/ \E t \in LockTasks : Step(t)
    \/ \E t \in LockTasks : Return(t)

SpecLocks == Init /\ [][NextLocks]_vars

\* ------------------------------------------------- the sweep by itself
\* The goroutine of ScheduleCleanup beside callers of Set and SetEx and the
\* clock; nobody reads.  The server runs: done is never closed here.

\* The goroutine started by ScheduleCleanup.
Sweeper == "c3"

\* ScheduleCleanup: case <-ticker.C, one s.cleanUp(), which holds the
\* store's lock from its first line to its return.  local[Sweeper].count is
\* history: the number of keys this run deleted.
ScheduleCleanup_tick ==
    LET r == cleanUp(data, expirations, now)
    IN  /\ srv.sweeper = "running"
        /\ Store(r)
        /\ local' = [local EXCEPT ![Sweeper].count =
                        Cardinality(DOMAIN data \ DOMAIN r.data)]
        /\ PlainAfter({}, {})
        /\ TtlAfter(EmptyMap)
        /\ last' = NoLast
        /\ UNCHANGED <<now, pc, tokens, reply, own>>

NextSweep ==
    /\ UNCHANGED <<inbox, script, metrics, disk, timers>>
    /\ UNCHANGED netVars
    /\ \/ \E k \in Keys, v \in Vals : callSet(k, v)
       \/ \E k \in Keys, v \in Vals, ttl \in 1..MaxTTL : callSetEx(k, v, ttl)
       \/ ScheduleCleanup_tick
       \/ Tick

\* The ticker keeps firing while the server runs, and the goroutine that
\* waits for it is scheduled.
SpecSweep ==
    /\ Init
    /\ [][NextSweep]_vars
    /\ WF_vars(/\ ScheduleCleanup_tick
               /\ UNCHANGED <<inbox, script, metrics, disk, timers>>
               /\ UNCHANGED netVars)

\* ------------------------------------------------ the shutdown to its end
\* The server of SpecConn with its goroutines scheduled: the hook, the
\* sweeper and every handler take their next step when they can.  ReadString
\* returns, with a line or with an error (the read deadline at the latest),
\* and so does Write; on a closed connection they return an error.  A client
\* may send lines for ever; the SET lines are counted, so at most MaxCmds of
\* them are followed.  What is written to a client is not recorded.

\* ReadString returns: a line and its command, or an error.
handleConnection_reads(c) ==
    \/ \E toks \in ConnInputs :
          /\ toks[1] = "SET" => Budget
          /\ processLine(c, toks)
    \/ handleConnection_readError(c)

\* conn.Write returns: the bytes were sent, or an error.
handleConnection_writes(c) ==
    \/ /\ Write(c)
       /\ sock[c] = "open"
       /\ UNCHANGED <<metrics, srv, wire>>
       /\ HandlerFrame
    \/ handleConnection_writeError(c)

NextDown ==
    \/ \E c \in Clients : Accept(c)
    \/ \E c \in Clients : handleConnection_start(c)
    \/ \E c \in Clients : handleConnection_add(c)
    \/ \E c \in Clients : handleConnection_reads(c)
    \/ \E c \in Clients : handleConnection_writes(c)
    \/ \E c \in Clients : disconnect_remove(c)
    \/ \E c \in Clients : disconnect_dec(c)
    \/ Interrupt
    \/ setupShutdownHook_wake
    \/ \E c \in Clients : CloseAll_close(c)
    \/ setupShutdownHook_save
    \/ setupShutdownHook_done
    \/ setupShutdownHook_close
    \/ ScheduleCleanup_stop

SpecDown ==
    /\ InitConn
    /\ [][NextDown]_vars
    /\ WF_vars(setupShutdownHook_wake)
    /\ WF_vars(\E c \in Clients : CloseAll_close(c))
    /\ WF_vars(setupShutdownHook_save)
    /\ WF_vars(setupShutdownHook_done)
    /\ WF_vars(setupShutdownHook_close)
    /\ WF_vars(ScheduleCleanup_stop)
    /\ \A c \in Clients :
         /\ WF_vars(handleConnection_start(c))
         /\ WF_vars(handleConnection_add(c))
         /\ WF_vars(handleConnection_reads(c))
         /\ WF_vars(sock[c] = "closed" /\ handleConnection_readError(c))
         /\ WF_vars(handleConnection_writes(c))
         /\ WF_vars(disconnect_remove(c))
         /\ WF_vars(disconnect_dec(c))

\* --------------------------------------------------------------- claims

\* Key j has the same entry, or none, in the maps m1 and m2.
SameEntry(m1, m2, j) ==
    /\ j \in DOMAIN m1 <=> j \in DOMAIN m2
    /\ j \in DOMAIN m1 => m1[j] = m2[j]

\* What a Get answers when nothing runs between its steps.
GetAnswer(d, e, t, key) ==
    IF key \notin DOMAIN d \/ expired(e, t, key) THEN KeyNotFound ELSE d[key]

\* C1: in every reachable state every key of the expiration mapping is a
\* key of the value mapping.
C1_ExpirationsWithinData == DOMAIN expirations \subseteq DOMAIN data

\* A Get has reported KeyNotFound while one key carries an expiration and
\* another key carries none.
C1_Witness ==
    /\ expirations # EmptyMap
    /\ DOMAIN expirations # DOMAIN data
    /\ \E c \in Clients : pc[c] = "write" /\ reply[c] = KeyNotFound

\* C2: a GET issued at or after the expiration instant of a key (boundary
\* included), the key not rewritten since, reports KeyNotFound and removes
\* the value and the expiration of the key.
C2_GetAtOrAfterExpiry ==
    [][\A c \in Clients :
          (own[c].due /\ pc'[c] = "write" /\ (Get_expired(c) \/ Get_delete(c)))
          => /\ reply'[c] = KeyNotFound
             /\ own[c].key \notin DOMAIN data'
             /\ own[c].key \notin DOMAIN expirations']_vars

\* C3: the next GET k of a client after its own SET k v returns v, when no
\* other task has written, deleted, renamed or flushed k in between (other
\* clients may read k).
C3_SetThenGet ==
    [][\A c \in Clients :
          (/\ own[c].value # ""
           /\ pc'[c] = "write"
           /\ \/ handleGet(c, <<"GET", own[c].key>>)
              \/ Get_expired(c)
              \/ Get_delete(c))
          => reply'[c] = own[c].value]_vars

\* The tasks of a parallel-Set run that were given a SET of key k, and the
\* values they were given.
SettersOf(k) == {t \in Tasks : script[t] # <<>> /\ script[t][1][2] = k}
Written(k) == {script[t][1][3] : t \in SettersOf(k)}
AllDone == \A t \in Tasks : inbox[t] = <<>> /\ pc[t] \in {"idle", "write"}

\* C4: when all the parallel Sets have completed, every key that was set
\* holds one of the values written to it (its one written value when the
\* keys are pairwise distinct), namely the value of the task that held the
\* lock last, and carries no expiration.
C4_ParallelSets ==
    AllDone =>
        \A k \in Keys :
            SettersOf(k) # {} =>
                /\ k \in DOMAIN data
                /\ data[k] \in Written(k)
                /\ k \notin DOMAIN expirations
                /\ \E t \in SettersOf(k) :
                      /\ own[t] = [key |-> k, value |-> data[k], due |-> FALSE]
                      /\ \A u \in SettersOf(k) \ {t} : own[u] = NoOwn

\* All Sets are done, two of them on the same key with different values and
\* a third on the other key.
C4_Witness ==
    /\ AllDone
    /\ \E k \in Keys : \E t \in SettersOf(k), u \in SettersOf(k) :
          script[t][1][3] # script[u][1][3]
    /\ \A k \in Keys : SettersOf(k) # {}

\* C5: Set(k, v) leaves k with value v and no expiration (TTL k is -1) and
\* changes no other key; from then on neither the lazy deletion of Get nor
\* the sweep removes k, until k is written with a TTL again.
C5_SetCancelsTTL ==
    [][\A k \in Keys :
          /\ \A c \in Clients, v \in Vals :
                handleSet(c, <<"SET", k, v>>)
                => /\ k \in DOMAIN data' /\ data'[k] = v
                   /\ k \notin DOMAIN expirations'
                   /\ TTL(data', expirations', now', k) = -1
                   /\ \A j \in Keys \ {k} :
                         SameEntry(data, data', j) /\ SameEntry(expirations, expirations', j)
          /\ (k \in plain /\ (sweep \/ \E c \in Clients : Get_delete(c)))
             => k \in DOMAIN data']_vars

\* C6: TTL k replies -2 when k is absent or its expiration instant has
\* passed, -1 when k is live with no expiration, and otherwise the remaining
\* whole seconds, between 0 and the TTL of the last SETEX; and it changes
\* neither mapping.
C6_TTLReply ==
    [][\A c \in Clients, k \in Keys :
          handleTTL(c, <<"TTL", k>>)
          => /\ data' = data /\ expirations' = expirations
             /\ IF k \notin DOMAIN data \/ (k \in DOMAIN expirations /\ expirations[k] < now)
                THEN reply'[c] = Itoa(-2)
                ELSE IF k \notin DOMAIN expirations
                THEN reply'[c] = Itoa(-1)
                ELSE \E r \in 0..ttlOf[k] :
                        /\ reply'[c] = Itoa(r)
                        /\ r = (expirations[k] - now) \div TicksPerSec]_vars

\* C7: a RENAME of a live old key to another key moves value and expiration
\* in one step: afterwards GET old is KeyNotFound, GET new is the value old
\* had, and new carries the expiration instant old had.
C7_RenameMoves ==
    [][\A c \in Clients :
          LET old == tokens[c][2]
              new == tokens[c][3]
          IN  (/\ handleRename_rename(c)
               /\ old # new
               /\ GetAnswer(data, expirations, now, old) # KeyNotFound)
              => /\ GetAnswer(data', expirations', now', old) = KeyNotFound
                 /\ GetAnswer(data', expirations', now', new) = data[old]
                 /\ old \notin DOMAIN expirations'
                 /\ old \in DOMAIN expirations
                    => /\ new \in DOMAIN expirations'
                       /\ expirations'[new] = expirations[old]]_vars

\* C8: after a successful Rename to another key, new has an expiration
\* exactly if old had one before, and then the same instant.
C8_RenameOverwritesExpiration ==
    [][\A c \in Clients :
          LET old == tokens[c][2]
              new == tokens[c][3]
          IN  (handleRename_rename(c) /\ old # new /\ old \in DOMAIN data)
              => /\ new \in DOMAIN expirations' <=> old \in DOMAIN expirations
                 /\ old \in DOMAIN expirations
                    => expirations'[new] = expirations[old]]_vars

\* C9: RenameNX returns 0 and changes neither mapping when old is absent or
\* new holds a value; otherwise it returns 1 and leaves the store as Rename
\* would.
C9_RenameNX ==
    [][\A o \in Keys, n \in Keys :
          callRenameNX(o, n)
          => IF o \notin DOMAIN data \/ n \in DOMAIN data
             THEN /\ last'.ret = 0
                  /\ data' = data
                  /\ expirations' = expirations
             ELSE /\ last'.ret = 1
                  /\ data' = Rename(data, expirations, o, n).data
                  /\ expirations' = Rename(data, expirations, o, n).expirations]_vars

\* RenameNX has just returned 0 for a present old key with an expiration,
\* because another key, new, holds a value; both keys still hold theirs.
C9_Witness ==
    /\ last.op = "RenameNX" /\ last.ret = 0 /\ last.ttl
    /\ last.args[1] # last.args[2]
    /\ {last.args[1], last.args[2]} \subseteq DOMAIN data
    /\ last.args[1] \in DOMAIN expirations

\* One Delete of key k by handler c, which had removed `before` keys so far
\* in this command: it removes k with its expiration and nothing else, and
\* the count goes up by the number of keys this call removed.
DelRoundOK(c, k, before) ==
    LET removed == Cardinality((DOMAIN data) \ (DOMAIN data'))
    IN  /\ DOMAIN data' \subseteq DOMAIN data
        /\ removed = IF k \in DOMAIN data THEN 1 ELSE 0
        /\ k \notin DOMAIN data' /\ k \notin DOMAIN expirations'
        /\ \A j \in Keys \ {k} :
              SameEntry(data, data', j) /\ SameEntry(expirations, expirations', j)
        /\ IF pc'[c] = "write"
           THEN reply'[c] = Itoa(before + removed)
           ELSE local'[c].count = before + removed

\* C10: DELETE k replies OK exactly when this call removed k, and
\* KeyNotFound with both mappings unchanged when k is absent; a removal
\* takes value and expiration together; each Delete of DEL counts exactly
\* the keys it removed, so of several deletions of one present key with no
\* write in between only the one that finds it is credited.
C10_DeleteReports ==
    [][\A c \in Clients :
          /\ \A k \in Keys :
                handleDelete(c, <<"DELETE", k>>)
                => /\ reply'[c] = IF k \in DOMAIN data THEN OK ELSE KeyNotFound
                   /\ k \notin DOMAIN data => data' = data /\ expirations' = expirations
                   /\ k \notin DOMAIN data' /\ k \notin DOMAIN expirations'
                   /\ DOMAIN data' = (DOMAIN data) \ {k}
                   /\ \A j \in Keys \ {k} :
                         SameEntry(data, data', j) /\ SameEntry(expirations, expirations', j)
          /\ \A toks \in DelLines : handleDel(c, toks) => DelRoundOK(c, toks[2], 0)
          /\ handleDel_next(c)
             => DelRoundOK(c, tokens[c][local[c].i], local[c].count)]_vars

\* A DEL of two keys has removed the first (with its expiration) and counted
\* it, while the other handler has been told KeyNotFound.
C10_Witness ==
    \E c \in Clients, b \in Clients :
        /\ pc[c] = "del" /\ local[c].count = 1
        /\ tokens[c][2] \notin DOMAIN data
        /\ pc[b] = "write" /\ reply[b] = KeyNotFound

\* C11: Persist(k) leaves the value mapping alone, returns 1 exactly when k
\* had an expiration, which it then removes, and 0 otherwise with nothing
\* changed; for a live key with an expiration the first Persist returns 1,
\* and a Persist that directly follows a Persist of the same key returns 0
\* and leaves the state as the first left it.
C11_Persist ==
    [][\A k \in Keys :
          callPersist(k)
          => /\ data' = data
             /\ last'.ret = IF k \in DOMAIN expirations THEN 1 ELSE 0
             /\ expirations' = IF k \in DOMAIN expirations
                               THEN Remove(expirations, k)
                               ELSE expirations
             /\ \A j \in Keys \ {k} : SameEntry(expirations, expirations', j)
             /\ (k \in DOMAIN expirations /\ now <= expirations[k]) => last'.ret = 1
             /\ (last.op = "Persist" /\ last.args = <<k>>)
                => /\ last'.ret = 0
                   /\ expirations' = expirations]_vars

\* Persist has just returned 0 for a key that holds a value, was not written
\* by Set and has no expiration any more.
C11_Witness ==
    /\ last.op = "Persist" /\ last.ret = 0 /\ ~last.ttl
    /\ last.args[1] \in DOMAIN data
    /\ last.args[1] \notin DOMAIN expirations
    /\ last.args[1] \notin plain

\* C12: KEYEXISTS k replies 0, and TYPE k replies none, exactly when a GET
\* of k at that moment would report KeyNotFound: a key whose expiration
\* instant has passed reads as absent although nothing has removed it yet.
C12_ContainsHonorsExpiration ==
    [][\A c \in CmdClients, k \in Keys :
          /\ handleKeyExists(c, <<"KEYEXISTS", k>>)
             => (reply'[c] = "0"
                   <=> GetAnswer(data, expirations, now, k) = KeyNotFound)
          /\ handleType(c, <<"TYPE", k>>)
             => (reply'[c] = "none"
                   <=> GetAnswer(data, expirations, now, k) = KeyNotFound)]_vars

\* The keys that are live at this moment: held, and not past their
\* expiration instant.
LiveKeys == {k \in DOMAIN data : ~expired(expirations, now, k)}

\* C13: the reply of KEYS lists exactly the keys that are live at the moment
\* the key set is read, each once, and is EMPTY exactly when no key is live.
C13_KeysAreLive ==
    [][\A c \in CmdClients :
          handleKeys_read(c)
          => /\ reply'[c] = "EMPTY" <=> LiveKeys = {}
             /\ LiveKeys # {}
                => \E keys \in Orders(LiveKeys) : reply'[c] = JoinLines(keys)]_vars

\* The token counts of the command table: each command with the number of
\* tokens it takes, the command name included.
TableArity(cmd, n) ==
    CASE cmd \in {"GET", "TTL", "DELETE", "KEYEXISTS", "TYPE"} -> n = 2
      [] cmd \in {"MGET", "DEL"} -> n >= 2
      [] cmd \in {"SET", "RENAME", "DELETEEX"} -> n = 3
      [] cmd = "MSET" -> n >= 3 /\ n % 2 = 1
      [] cmd = "SETEX" -> n = 4
      [] cmd \in {"FLUSH", "KEYS", "SAVE", "LOAD", "STATS", "INFO", "PING",
                  "HELP", "SHUTDOWN"} -> n = 1
      [] OTHER -> FALSE

\* The usage errors of the commands.
UsageErrors == {formatInvalidCommand(cmd, Usage(cmd)) : cmd \in KnownCommands}

\* C14: a command of the dispatcher's table given a token list of the wrong
\* length replies a usage error, counts one ERROR and nothing else, and
\* leaves the value mapping, the expiration mapping, the snapshot file and
\* the timers as they were.
C14_WrongArity ==
    [][\A c \in CmdClients, toks \in CmdInputs :
          (/\ cmdOf(toks) \in KnownCommands
           /\ ~TableArity(cmdOf(toks), Len(toks))
           /\ pc[c] = "idle" /\ Budget
           /\ processCommand(c, toks))
          => /\ pc'[c] = "write"
             /\ reply'[c] \in UsageErrors
             /\ metrics'.CommandCounts = Inc(metrics.CommandCounts, "ERROR")
             /\ data' = data
             /\ expirations' = expirations
             /\ disk' = disk
             /\ timers' = timers]_vars

\* MSET with an even number of tokens has been refused, the ERROR counted,
\* while the store holds a key; the lines the connection sends include one
\* of a wrong length for every command of the dispatcher's table.
C14_Witness ==
    /\ \E c \in CmdClients :
          /\ pc[c] = "write"
          /\ reply[c] = formatInvalidCommand("MSET", Usage("MSET"))
    /\ Get(metrics.CommandCounts, "ERROR") >= 1
    /\ data # EmptyMap
    /\ \A cmd \in KnownCommands :
          \E toks \in CmdInputs : cmdOf(toks) = cmd /\ ~TableArity(cmd, Len(toks))

\* The error replies of the commands: key not found, unknown command, wrong
\* arity, invalid TTL, snapshot I/O failure.
ErrorReplies ==
    {KeyNotFound, InvalidCommand, SaveFailed, LoadFailed}
    \cup UsageErrors
    \cup {formatInvalidTTL(ttlStr) : ttlStr \in TTLStrs}

\* The lines of the connection that name the command cmd.
LinesOf(cmd) == {toks \in CmdInputs : cmdOf(toks) = cmd}

\* The handler of c returns from the command named cmd in this step.
ReturnsFrom(c, cmd) ==
    /\ Returns(c)
    /\ \/ pc[c] = "idle" /\ \E toks \in LinesOf(cmd) : processCommand(c, toks)
       \/ /\ pc[c] \notin {"idle", "write", "closed"}
          /\ cmdOf(tokens[c]) = cmd
          /\ continueCommand(c)

\* C15: a command that returns a reply that is no error has added exactly
\* one to the counter of its own name and changed no other counter.
C15_SuccessCounts ==
    [][\A c \in CmdClients, cmd \in KnownCommands :
          (ReturnsFrom(c, cmd) /\ reply'[c] \notin ErrorReplies)
          => metrics'.CommandCounts = Inc(metrics.CommandCounts, cmd)]_vars

\* C16: a command that returns an error reply has added exactly one to the
\* ERROR counter and changed no other counter; the counters change in no
\* other step than the return of a command.
C16_ErrorCounts ==
    [][\A c \in CmdClients :
          /\ \A cmd \in KnownCommands \cup {"NOPE"} :
                (ReturnsFrom(c, cmd) /\ reply'[c] \in ErrorReplies)
                => metrics'.CommandCounts = Inc(metrics.CommandCounts, "ERROR")
          /\ Get(metrics'.CommandCounts, "ERROR") # Get(metrics.CommandCounts, "ERROR")
             => Returns(c) /\ pc[c] # "write" /\ reply'[c] \in ErrorReplies]_vars

\* After a SAVE that wrote the snapshot file and a command that replied an
\* error, LOAD has failed on the existing file and the second ERROR is
\* counted.
C16_Witness ==
    /\ \E c \in CmdClients : pc[c] = "write" /\ reply[c] = LoadFailed
    /\ disk.exists
    /\ metrics.CommandCounts = [n \in {"ERROR", "SAVE"} |-> IF n = "SAVE" THEN 1 ELSE 2]

\* C17: the write of an error reply takes the handler back to reading the
\* next line, and a handler leaves its loop only in a step where its read or
\* its write fails.
C17_StaysOpen ==
    [][\A c \in CmdClients :
          /\ (pc[c] = "write" /\ reply[c] \in ErrorReplies /\ pc'[c] # "write")
             => \/ pc'[c] = "idle" /\ metrics' = metrics
                \/ WriteError(c)
          /\ (pc[c] # "closed" /\ pc'[c] = "closed")
             => ReadError(c) \/ WriteError(c)]_vars

\* After two commands that replied an error, the connection has sent a
\* third command and PING has answered it.
C17_Witness ==
    /\ \E c \in CmdClients : pc[c] = "write" /\ reply[c] = "PONG"
    /\ Get(metrics.CommandCounts, "ERROR") = 2
    /\ metrics.ActiveClients = Cardinality(CmdClients)

\* C18: DELETEEX k ttl of a key that is absent, or past its expiration
\* instant when the command is issued, replies KeyNotFound; of a live key
\* with a ttl that is no positive integer it replies the invalid-TTL error;
\* it arms a timer only for a live key and a positive ttl, with the reply OK,
\* and in every other case the timers stay as they were.
C18_DeleteExArms ==
    [][\A c \in CmdClients :
          /\ \A toks \in LinesOf("DELETEEX") :
                (/\ pc[c] = "idle" /\ Len(toks) = 3
                 /\ toks[2] \notin DOMAIN data
                 /\ processCommand(c, toks))
                => reply'[c] = KeyNotFound /\ timers' = timers
          /\ (/\ pc[c] \in {"deleteex_expired", "deleteex_delete"}
              /\ own[c].key = tokens[c][2]
              /\ continueCommand(c)
              /\ Returns(c))
             => LET ttl == Atoi(tokens[c][3])
                    positive == ~ttl.err /\ ttl.n > 0
                IN  /\ own[c].due => reply'[c] = KeyNotFound /\ timers' = timers
                    /\ (~own[c].due /\ ~positive /\ reply'[c] # KeyNotFound)
                       => /\ reply'[c] = formatInvalidTTL(tokens[c][3])
                          /\ timers' = timers
                    /\ timers' # timers
                       => /\ ~own[c].due /\ positive /\ reply'[c] = OK
                          /\ timers' = Append(timers, timers'[Len(timers')])
                          /\ timers'[Len(timers')].key = tokens[c][2]]_vars

\* C19: a timer armed by DELETEEX stays armed until it fires, whatever is
\* written meanwhile; it fires no earlier than its delay; when it has fired
\* its key has no value and no expiration, so that a GET reports
\* KeyNotFound, whatever value the key held, and the other keys are as
\* before; fired for a key that is gone it changes nothing of the store,
\* the handlers, the replies or the counters.
C19_TimerDeletes ==
    [][/\ \A i \in 1..MaxTimers :
             (i <= Len(timers) /\ TimerFires(i))
             => LET key == timers[i].key
                IN  /\ now >= timers[i].due
                    /\ key \notin DOMAIN data'
                    /\ key \notin DOMAIN expirations'
                    /\ GetAnswer(data', expirations', now', key) = KeyNotFound
                    /\ \A j \in Keys \ {key} :
                          /\ SameEntry(data, data', j)
                          /\ SameEntry(expirations, expirations', j)
                    /\ key \notin DOMAIN data
                       => /\ data' = data /\ expirations' = expirations
                          /\ pc' = pc /\ reply' = reply /\ metrics' = metrics
       /\ (\E i \in 1..MaxTimers : i <= Len(timers) /\ TimerFires(i))
          \/ SubSeq(timers', 1, Len(timers)) = timers]_vars

\* A timer has fired and deleted its key, which held another value than
\* the one it held when DELETEEX armed the timer.
C19_Witness ==
    /\ last.op = "AfterFunc"
    /\ last.ret = 1
    /\ last.args[2] # last.args[3]
    /\ last.args[1] \notin DOMAIN data

\* The replies that consist of n entries, each a value or nil.
RepliesOf(n) == {JoinLines(seq) : seq \in [1..n -> Vals \cup {"", "nil"}]}

\* C20: the reply of MGET k1..kn consists of exactly n entries, and MGET
\* adds nothing to the ERROR counter, whether or not a key is missing.
C20_MGetEntries ==
    [][\A c \in CmdClients :
          (/\ pc[c] \in {"mget", "mget_expired", "mget_delete"}
           /\ continueCommand(c)
           /\ Returns(c))
          => /\ reply'[c] \in RepliesOf(Len(tokens[c]) - 1)
             /\ Get(metrics'.CommandCounts, "ERROR")
                  = Get(metrics.CommandCounts, "ERROR")]_vars

\* The replies of one line: a value, a number, a fixed word or an error
\* text, none of which holds a newline.
OneLineReplies ==
    Vals \cup {"", OK, "PONG", "string", "none", "nil"}
    \cup {Itoa(n) : n \in -2..9}
    \cup ErrorReplies

\* The commands whose reply may have several lines.
ManyLineCommands == {"STATS", "INFO", "KEYS", "HELP"}

\* C22 as stated: the reply of every command other than STATS, INFO, KEYS
\* and HELP is one line, MGET of two keys included.
C22_OneLine ==
    [][\A c \in CmdClients, cmd \in (KnownCommands \cup {"NOPE"}) \ ManyLineCommands :
          ReturnsFrom(c, cmd) => reply'[c] \in OneLineReplies]_vars

\* C22 amended: the reply of every command other than STATS, INFO, KEYS,
\* HELP and MGET is one line; the reply of MGET k1..kn has at most n lines.
C22_OneLineButMGet ==
    [][\A c \in CmdClients :
          /\ \A cmd \in (KnownCommands \cup {"NOPE"}) \ (ManyLineCommands \cup {"MGET"}) :
                ReturnsFrom(c, cmd) => reply'[c] \in OneLineReplies
          /\ ReturnsFrom(c, "MGET")
             => \/ reply'[c] \in UsageErrors
                \/ /\ pc[c] # "idle"
                   /\ \E n \in 0..(Len(tokens[c]) - 1) : reply'[c] \in RepliesOf(n)]_vars

\* DEL of two keys has deleted both and replied the one line 2.
C22_Witness ==
    /\ \E c \in CmdClients : pc[c] = "write" /\ reply[c] = "2"
    /\ Get(metrics.CommandCounts, "DEL") = 1

\* The blocks the server may write: a response or a message, and its END.
Blocks == {Framed(t) : t \in {"PONG"} \cup Msgs}

\* C21: everything written to a connection, a command response or a
\* pub/sub push, is a block terminated by one END line, written whole.
C21_EndTerminated ==
    \A c \in Clients : \A i \in 1..Len(wire[c]) : wire[c][i] \in Blocks

\* The subscribers of a channel; none when it has no entry.
Subscribers(channel) ==
    IF channel \in DOMAIN Subscribtions THEN Subscribtions[channel] ELSE {}

\* C27: Publish returns the number of subscribers of the channel whose
\* write succeeded, 0 without subscribers; each of these receives one copy
\* of the message and no other connection receives anything.
C27_PublishDelivers ==
    [][\A p \in Publishers :
          /\ (pub[p].pc # "done" /\ pub'[p].pc = "done")
             => pub'[p].count =
                   Cardinality(Subscribers(pub'[p].channel) \ pub'[p].failed)
          /\ Publish_write(p)
             => \A c \in Clients :
                   wire'[c] =
                      IF c \in pub[p].rest \ pub'[p].rest /\ c \notin pub'[p].failed
                      THEN Append(wire[c], pub[p].message \o "\n")
                      ELSE wire[c]]_vars

\* C28: the mapping holds for each channel the connections that subscribed
\* and have not unsubscribed since, no channel maps to the empty set, and
\* a repeated Subscribe, a repeated Unsubscribe and an Unsubscribe of a
\* non-member or of an unknown channel leave the mapping as it is.
C28_Subscriptions ==
    /\ \A ch \in Channels : Subscribers(ch) = joined[ch]
    /\ \A ch \in DOMAIN Subscribtions : Subscribtions[ch] # {}
    /\ \A ch \in Channels, c \in Clients :
          IF c \in joined[ch]
          THEN Subscribe(Subscribtions, ch, c) = Subscribtions
          ELSE Unsubscribe(Subscribtions, ch, c) = Subscribtions
    /\ \A c \in Clients : Unsubscribe(Subscribtions, "void", c) = Subscribtions

\* Both connections are on one channel and the other channel has no entry.
C28_Witness ==
    /\ joined["news"] = Clients
    /\ Subscribtions["news"] = Clients
    /\ joined["chat"] = {}
    /\ "chat" \notin DOMAIN Subscribtions

\* C29: a write of Publish that fails is not counted, the loop goes on to
\* the subscribers that are left and returns only when none is left, and
\* no step of Publish changes the subscription mapping.
C29_WriteFailure ==
    [][\A p \in Publishers :
          /\ pub'[p] # pub[p] => Subscribtions' = Subscribtions
          /\ pub'[p].failed \ pub[p].failed # {}
             => /\ pub'[p].count = pub[p].count
                /\ pub'[p].pc = "loop"
          /\ (pub[p].pc = "loop" /\ pub'[p].pc = "done") => pub[p].rest = {}]_vars

\* C30: a connection whose handler has disconnected is a subscriber of no
\* channel.
C30_TeardownUnsubscribes ==
    \A c \in Clients :
       pc[c] = "closed" => \A ch \in DOMAIN Subscribtions : c \notin Subscribtions[ch]

\* The handlers that have started and have not finished disconnect.
Active == {c \in Clients : pc[c] \in {"add", "idle", "write", "remove", "dec"}}

\* C23: the active-client count is the number of handlers that started and
\* have not disconnected, is never negative and is at least the size of the
\* registry; a handler that has returned has left the registry.
C23_ActiveClients ==
    /\ metrics.ActiveClients = Cardinality(Active)
    /\ metrics.ActiveClients >= 0
    /\ metrics.ActiveClients >= Cardinality(conns)
    /\ conns \subseteq Active
    /\ \A c \in Clients : pc[c] \in {"dec", "closed"} => c \notin conns

\* Both handlers have returned, a SET was served and the shutdown has
\* begun: the count is back at 0 and the registry is empty.
C23_Witness ==
    /\ pc["c1"] = "closed"
    /\ pc["c2"] = "closed"
    /\ srv.hook # "waiting"
    /\ metrics.ActiveClients = 0
    /\ conns = {}
    /\ Get(metrics.CommandCounts, "SET") > 0

\* C24: when the shutdown closes the registered connections, takes the
\* final snapshot and stops the sweep, the listener has stopped accepting:
\* no connection is accepted after that point.
C24_ShutdownOrder ==
    [][/\ srv.hook # "waiting" => srv.ln = "closed"
       /\ \A c \in Clients : Accept(c) => srv.hook = "waiting"]_vars

\* C25: a LOAD that succeeds after a SAVE that succeeded makes the two
\* mappings of the store those of the moment of that SAVE, whatever was
\* written in between.
C25_RoundTrip ==
    [][\A c \in CmdClients :
          (/\ ReturnsFrom(c, "LOAD")
           /\ reply'[c] = OK
           /\ Get(metrics.CommandCounts, "SAVE") > 0)
          => /\ data' = disk.saved.data
             /\ expirations' = disk.saved.expirations]_vars

\* C26: a load that fails leaves both mappings as they were.  At startup
\* the server then still listens, with the empty store when the file is
\* missing; the LOAD command answers with the formatted error and counts
\* one ERROR, and its connection stays open for the next command.
C26_FailedLoad ==
    [][/\ \A c \in CmdClients :
             (ReturnsFrom(c, "LOAD") /\ reply'[c] \notin {OK} \cup UsageErrors)
             => /\ reply'[c] = LoadFailed
                /\ data' = data
                /\ expirations' = expirations
                /\ Get(metrics'.CommandCounts, "ERROR") =
                      Get(metrics.CommandCounts, "ERROR") + 1
                /\ Get(metrics'.CommandCounts, "LOAD") =
                      Get(metrics.CommandCounts, "LOAD")
                /\ sock'[c] = sock[c]
       /\ (StartServer /\ (~disk.exists \/ disk.bad))
          => /\ data' = EmptyMap
             /\ expirations' = EmptyMap
             /\ srv'.ln = "open"]_vars

\* After a cold start without a file a LOAD has failed and the key written
\* before it is still there.
C26_Witness ==
    /\ ~disk.exists
    /\ srv.ln = "open"
    /\ reply["c1"] = LoadFailed
    /\ DOMAIN data = {"a"}
    /\ Get(metrics.CommandCounts, "ERROR") = 1

\* C31: no counter ever goes down, each counter is the number of calls of
\* Inc for its name that have returned, and the copy Snapshot returns is
\* the counters and the gauge of the moment it took its lock, whatever is
\* counted afterwards.
C31_Counters ==
    [][/\ \A name \in {ToUpper(n) : n \in IncNames} :
             /\ Get(metrics'.CommandCounts, name) >= Get(metrics.CommandCounts, name)
             /\ Get(metrics'.CommandCounts, name) = Get(calls'.inc, name)
       /\ \A t \in MetricTasks :
             pc'[t] = "snapped"
             => /\ local'[t].out = calls'.seen.CommandCounts
                /\ local'[t].count = calls'.seen.ActiveClients]_vars

\* A snapshot taken at two counts is held while a third call of Inc
\* returns.
C31_Witness ==
    /\ pc["c3"] = "snapped"
    /\ SumOver(local["c3"].out, DOMAIN local["c3"].out) = 2
    /\ Get(metrics.CommandCounts, "FLUSH") = 2
    /\ Get(metrics.CommandCounts, "ERROR") = 1

\* What a store holding d answers to a line, and the store afterwards.
ReplyTo(d, line) ==
    IF line[1] = "SET" THEN OK
    ELSE IF line[2] \notin DOMAIN d THEN KeyNotFound
    ELSE IF line[1] = "GET" THEN d[line[2]] ELSE OK

After(d, line) ==
    IF line[1] = "SET" THEN Put(d, line[2], line[3])
    ELSE IF line[1] = "DELETE" THEN Remove(d, line[2])
    ELSE d

RECURSIVE Answers(_, _)
Answers(d, lines) ==
    IF lines = <<>> THEN <<>>
    ELSE <<Framed(ReplyTo(d, Head(lines)))>> \o Answers(After(d, Head(lines)), Tail(lines))

RECURSIVE AfterAll(_, _)
AfterAll(d, lines) ==
    IF lines = <<>> THEN d ELSE AfterAll(After(d, Head(lines)), Tail(lines))

\* The lines a handler has read, the one it is running included.
LinesRead(c) == SubSeq(script[c], 1, Len(script[c]) - Len(inbox[c]))

\* C32: a handler has written the response of every line it read before
\* it reads the next one, and the lines of a connection take effect in the
\* order they were sent: with nobody else writing, the responses and the
\* store are those of running the lines one after the other.
C32_InOrder ==
    \A c \in Clients :
       /\ Len(wire[c]) = Len(LinesRead(c)) - (IF pc[c] = "idle" THEN 0 ELSE 1)
       /\ (\A b \in Clients \ {c} : script[b] = <<>>)
          => /\ wire[c] = SubSeq(Answers(EmptyMap, script[c]), 1, Len(wire[c]))
             /\ pc[c] \in {"idle", "write"} => data = AfterAll(EmptyMap, LinesRead(c))

\* The lone connection sent SET a x and then SET a y: both lines
\* are answered and a holds y.
C32_Witness ==
    /\ script["c1"] = <<<<"SET", "a", "x">>, <<"SET", "a", "y">>>>
    /\ script["c2"] = <<>>
    /\ Len(wire["c1"]) = 2
    /\ data["a"] = "y"

\* An access of task t to a field whose mutex t holds in the mode the access
\* needs: Lock for a write, Lock or RLock for a read.
Locked(t) ==
    LET x == Guard[Event(t)[2]]
    IN IF Event(t)[1] = "write" THEN mu[x].w = t
       ELSE mu[x].w = t \/ t \in mu[x].r

\* Two tasks are about to access the same field, and one of them writes.
Race(t, u) ==
    /\ t # u
    /\ At(t, "write")
    /\ At(u, "read") \/ At(u, "write")
    /\ Event(t)[2] = Event(u)[2]

\* C33: every read of the store's two mappings is made under the store's
\* lock, shared or exclusive, and every write under the exclusive lock, the
\* expiry check and the lazy deletion of Get included; no two tasks are ever
\* about to access the same mapping with one of them writing.
C33_StoreLocked ==
    /\ \A t \in LockTasks :
         (At(t, "read") \/ At(t, "write")) /\ Guard[Event(t)[2]] = "store"
             => Locked(t)
    /\ \A t \in LockTasks, u \in LockTasks :
         Race(t, u) => Guard[Event(t)[2]] # "store"

\* C34: the lazy deletion of Get and the sweep only remove an entry that is
\* expired at the moment it is removed: a Get that saw its key expired and
\* takes the exclusive lock after another task has written the key anew
\* leaves the new value alone.
C34_RemovesOnlyExpired ==
    [][(sweep \/ \E c \in Clients : Get_delete(c))
          => \A k \in DOMAIN data \ DOMAIN data' :
                 expired(expirations, now, k)]_vars

\* C35: RENAME old new replies OK only if Rename moved the value, that is if
\* old was in the store when Rename was applied, and new then holds its
\* value; if old is absent at that moment, also when it was removed after
\* the handler's existence check, the reply is the key-not-found error and
\* the store is unchanged.
C35_RenameReply ==
    [][\A c \in Clients :
          handleRename_rename(c)
              => IF tokens[c][2] \in DOMAIN data
                 THEN /\ reply'[c] = OK
                      /\ tokens[c][3] \in DOMAIN data'
                      /\ data'[tokens[c][3]] = data[tokens[c][2]]
                 ELSE /\ reply'[c] = KeyNotFound
                      /\ data' = data
                      /\ expirations' = expirations]_vars

\* The step writes key anew: Set, SetEx, or a rename onto it.
Rewrites(key) ==
    \/ \E v \in Vals : callSet(key, v)
    \/ \E v \in Vals, ttl \in 1..MaxTTL : callSetEx(key, v, ttl)
    \/ \E o \in Keys : callRename(o, key) \/ callRenameNX(o, key)

\* C36: an expired entry is never resurrected: a key whose expiration instant
\* has passed is not live after any step that does not write it anew, so no
\* later Get finds its value; in particular Persist on an expired key that
\* is still in the store does not make the stale value readable.
C36_NoResurrection ==
    [][\A k \in Keys :
          k \in DOMAIN data /\ expired(expirations, now, k) /\ ~Rewrites(k)
              => GetAnswer(data', expirations', now', k) = KeyNotFound]_vars

\* The entry of key is in the store and its expiration instant has passed.
Stale(key) == key \in DOMAIN data /\ expired(expirations, now, key)

\* C37: with the sweep scheduled fairly, every key whose expiration instant
\* has passed is eventually out of both mappings though nobody reads it,
\* unless it is written anew first; and one sweep removes every key that is
\* expired when it runs.
C37_SweepRemoves ==
    /\ [][ScheduleCleanup_tick
            => \A k \in Keys :
                 Stale(k) => k \notin DOMAIN data' /\ k \notin DOMAIN expirations']_vars
    /\ \A k \in Keys :
         Stale(k) ~> \/ k \notin DOMAIN data /\ k \notin DOMAIN expirations
                     \/ k \in DOMAIN data /\ ~expired(expirations, now, k)

\* A sweep has just removed two expired keys that nobody had read, and the
\* store is empty.
C37_Witness ==
    /\ local[Sweeper].count = 2
    /\ data = EmptyMap
    /\ expirations = EmptyMap
    /\ now > 0

\* The shutdown has done all it has to do.
ShutDown ==
    /\ \A c \in Clients : pc[c] \in {"none", "closed"}
    /\ conns = {}
    /\ metrics.ActiveClients = 0
    /\ srv.sweeper = "stopped"

\* C38: once the shutdown has been triggered, eventually every handler has
\* returned, the registry is empty, the count of active clients is 0 and
\* the sweeper has stopped.
C38_ShutdownCompletes == (srv.hook # "waiting") ~> ShutDown

\* C39: no mutex of a component (store, metrics, pub/sub manager, registry)
\* is held by a task while that task writes to a client connection or
\* closes one.
C39_NoLockAcrossIO ==
    \A t \in LockTasks : At(t, "io") => Held(t) = {}

\* Task t waits for a mutex.
Waits(t) == (At(t, "Lock") \/ At(t, "RLock")) /\ ~ENABLED Step(t)

\* C40: no task holds the mutexes of two components at once and none asks
\* for a mutex it holds; so among the running calls one can always go on, a
\* task that waits waits for tasks that do not wait, and it waits only for a
\* task inside the component it is calling.
C40_NoDeadlock ==
    /\ \A t \in LockTasks :
         /\ Cardinality(Held(t)) <= 1
         /\ At(t, "Lock") \/ At(t, "RLock") => Event(t)[2] \notin Held(t)
         /\ Waits(t) =>
              \A u \in LockTasks \ {t} :
                  Event(t)[2] \in Held(u) => Running(u) /\ ~Waits(u)
    /\ (\E t \in LockTasks : Running(t)) => \E t \in LockTasks : ENABLED Step(t)

\* handleInfo reads ActiveClients under the metrics mutex while a Set holds
\* the store's mutex for its write, and neither waits.
C40_Witness ==
    \E t \in LockTasks, u \in LockTasks :
        /\ local[t].value = "handleInfo"
        /\ At(t, "read")
        /\ mu["metrics"].r = {t}
        /\ local[u].value = "Set"
        /\ At(u, "write")
        /\ mu["store"].w = u

====
